---- MODULE Spec2Model ----
(***************************************************************************)
(* Model of package config (src/config/config.go): the configuration       *)
(* reload pipeline (Reload), the published snapshot (Get), the             *)
(* writability probe (IsWritablePath) and the abort path                   *)
(* (deferred recover, waitForSettingsClosed, os.Exit(5)).                  *)
(*                                                                         *)
(* Go strings are modelled as sequences of one-character strings, so that  *)
(* prefix tests, replacement, splitting, parsing and formatting are        *)
(* computed character by character as the Go library computes them.        *)
(***************************************************************************)
EXTENDS Integers, Sequences, FiniteSets, TLC

\* ------------------------------------------------------------------------
\* Strings
\* ------------------------------------------------------------------------

Empty == <<>>

\* strings.HasPrefix(s, prefix)
HasPrefix(s, prefix) ==
    /\ Len(s) >= Len(prefix)
    /\ SubSeq(s, 1, Len(prefix)) = prefix

\* Index of the last "/" of s, 0 when there is none.
LastSlash(s) ==
    LET idx == {i \in 1..Len(s) : s[i] = "/"}
    IN  IF idx = {} THEN 0 ELSE CHOOSE i \in idx : \A j \in idx : j <= i

\* filepath.Clean for paths without "." and ".." elements: repeated
\* separators collapse, a trailing separator is dropped (the root keeps
\* its own), and the empty path becomes ".".
RECURSIVE CollapseSlashes(_)
CollapseSlashes(s) ==
    IF Len(s) <= 1 THEN s
    ELSE IF s[1] = "/" /\ s[2] = "/" THEN CollapseSlashes(Tail(s))
    ELSE <<s[1]>> \o CollapseSlashes(Tail(s))

Clean(s) ==
    LET c == CollapseSlashes(s)
        t == IF Len(c) > 1 /\ c[Len(c)] = "/" THEN SubSeq(c, 1, Len(c) - 1) ELSE c
    IN  IF t = Empty THEN <<".">> ELSE t

\* filepath.Dir(path): everything up to and including the last separator,
\* cleaned.
Dir(path) == Clean(SubSeq(path, 1, LastSlash(path)))

\* filepath.Join(a, b) for two non-empty elements.
Join(a, b) == Clean(a \o <<"/">> \o b)

\* config.TranslatePath: filepath.Dir of what the host's path translation
\* returned (hostPath is the host's answer for the setting).
TranslatePath(hostPath) == Dir(hostPath)

Dot == <<".">>
NfsPrefix == <<"n", "f", "s">>
SmbPrefix == <<"s", "m", "b">>
WritableName == <<".", "w", "r", "i", "t", "a", "b", "l", "e">>
TorrentsName == <<"T", "o", "r", "r", "e", "n", "t", "s">>
IconName == <<"i", "c", "o", "n", ".", "p", "n", "g">>

\* ------------------------------------------------------------------------
\* Errors (error values carry the text's kind and the path it names)
\* ------------------------------------------------------------------------

NoWarning == [code |-> "", path |-> Empty]
Nil == [code |-> "nil", path |-> Empty]
ErrPathNotSet == [code |-> "Path not set", path |-> Empty]
ErrNetworkPath(path) == [code |-> "Network paths are not supported", path |-> path]
ErrNotDirectory(path) == [code |-> "is not a valid directory", path |-> path]
ErrNotExist(path) == [code |-> "no such file or directory", path |-> path]
ErrNotDir(path) == [code |-> "not a directory", path |-> path]
ErrPermission(path) == [code |-> "permission denied", path |-> path]
ErrIsDirectory(path) == [code |-> "is a directory", path |-> path]

\* ------------------------------------------------------------------------
\* Filesystem: a function from cleaned paths to entries
\* ------------------------------------------------------------------------

DirEntry(w) == [isDir |-> TRUE, writable |-> w]
FileEntry(w) == [isDir |-> FALSE, writable |-> w]

\* The proper ancestors of a cleaned absolute path, the root included.
Ancestors(path) ==
    {SubSeq(path, 1, i - 1) : i \in {j \in 2..Len(path) : path[j] = "/"}}
        \cup (IF Len(path) > 1 /\ path[1] = "/" THEN {<<"/">>} ELSE {})

\* An ancestor of path is there and is no directory (ENOTDIR).
UnderFile(f, path) == \E a \in Ancestors(path) : a \in DOMAIN f /\ ~f[a].isDir

\* os.Stat(path)
osStat(f, path) ==
    IF path \in DOMAIN f
    THEN [err |-> Nil, isDir |-> f[path].isDir]
    ELSE IF UnderFile(f, path) THEN [err |-> ErrNotDir(path), isDir |-> FALSE]
    ELSE [err |-> ErrNotExist(path), isDir |-> FALSE]

\* os.Create(file): truncates an existing writable file, otherwise creates
\* the file in a writable parent directory.
osCreate(f, file) ==
    LET parent == Dir(file) IN
    IF file \in DOMAIN f
    THEN IF f[file].isDir THEN [err |-> ErrIsDirectory(file), fs |-> f]
         ELSE IF f[file].writable THEN [err |-> Nil, fs |-> f]
         ELSE [err |-> ErrPermission(file), fs |-> f]
    ELSE IF UnderFile(f, file) THEN [err |-> ErrNotDir(file), fs |-> f]
    ELSE IF parent \notin DOMAIN f THEN [err |-> ErrNotExist(file), fs |-> f]
    ELSE IF ~f[parent].writable THEN [err |-> ErrPermission(file), fs |-> f]
    ELSE [err |-> Nil,
          fs |-> [p \in DOMAIN f \cup {file} |->
                     IF p = file THEN FileEntry(TRUE) ELSE f[p]]]

\* os.Remove(file); the caller ignores its error.
osRemove(f, file) ==
    IF file \in DOMAIN f /\ Dir(file) \in DOMAIN f /\ f[Dir(file)].writable
    THEN [p \in DOMAIN f \ {file} |-> f[p]]
    ELSE f

\* The entries of f below path.
Below(f, path) == {q \in DOMAIN f : path \in Ancestors(q)}

\* os.RemoveAll(path); the caller ignores its error.  Entries go from the
\* leaves up, each one when the directory that holds it is writable and,
\* for a directory, when nothing is left in it.
RECURSIVE osRemoveAll(_, _)
osRemoveAll(f, path) ==
    LET removable == {q \in Below(f, path) \cup ({path} \cap DOMAIN f) :
                         /\ q # <<"/">>
                         /\ Below(f, q) = {}
                         /\ Dir(q) \in DOMAIN f /\ f[Dir(q)].writable}
    IN  IF removable = {} THEN f
        ELSE osRemoveAll([q \in DOMAIN f \ removable |-> f[q]], path)

\* os.MkdirAll(path, 0777); the caller only logs its error.  The missing
\* directories are made from the top down, each in a writable directory.
RECURSIVE osMkdirAll(_, _)
osMkdirAll(f, path) ==
    IF path \in DOMAIN f \/ path = <<"/">> \/ path = Dot THEN f
    ELSE LET g == osMkdirAll(f, Dir(path)) IN
         IF Dir(path) \in DOMAIN g /\ g[Dir(path)].isDir /\ g[Dir(path)].writable
         THEN [q \in DOMAIN g \cup {path} |-> IF q = path THEN DirEntry(TRUE) ELSE g[q]]
         ELSE g

\* The tail of IsWritablePath once the probe file was created:
\* writable.Close(); os.Remove(writableFile); return nil.
ProbeCleanup(f, writableFile) == [err |-> Nil, fs |-> osRemove(f, writableFile)]

\* The checks of IsWritablePath before os.Stat.
PathPrecheck(path) ==
    IF path = Dot THEN ErrPathNotSet
    ELSE IF HasPrefix(path, NfsPrefix) \/ HasPrefix(path, SmbPrefix)
    THEN ErrNetworkPath(path)
    ELSE Nil

\* config.IsWritablePath(path): the error it returns and the filesystem it
\* leaves.
IsWritablePath(f, path) ==
    LET pre == PathPrecheck(path)
        st == osStat(f, path)
        writableFile == Join(path, WritableName)
        cr == osCreate(f, writableFile)
    IN  IF pre # Nil THEN [err |-> pre, fs |-> f]
        ELSE IF st.err # Nil \/ ~st.isDir
        THEN IF st.err # Nil THEN [err |-> st.err, fs |-> f]
             ELSE [err |-> ErrNotDirectory(path), fs |-> f]
        ELSE IF cr.err # Nil THEN [err |-> cr.err, fs |-> cr.fs]
        ELSE ProbeCleanup(cr.fs, writableFile)

\* ------------------------------------------------------------------------
\* Settings coercion (Reload, the loop over xbmc.GetAllSettings())
\* ------------------------------------------------------------------------

\* Values of the map[string]interface{}: t is the dynamic type; n the int,
\* num/exp the float32 (num / 10^exp, exp fraction digits, no trailing zero
\* digit), b the bool and s the string.  NilV is the nil interface a lookup
\* of a missing key returns.
IntV(n) == [t |-> "int", n |-> n, num |-> 0, exp |-> 0, b |-> FALSE, s |-> Empty]
FloatV(num, exp) == [t |-> "float32", n |-> 0, num |-> num, exp |-> exp, b |-> FALSE, s |-> Empty]
BoolV(b) == [t |-> "bool", n |-> 0, num |-> 0, exp |-> 0, b |-> b, s |-> Empty]
StrV(s) == [t |-> "string", n |-> 0, num |-> 0, exp |-> 0, b |-> FALSE, s |-> s]
NilV == [t |-> "nil", n |-> 0, num |-> 0, exp |-> 0, b |-> FALSE, s |-> Empty]

Digits == <<"0", "1", "2", "3", "4", "5", "6", "7", "8", "9">>
IsDigit(c) == \E d \in 1..10 : Digits[d] = c
DigitVal(c) == (CHOOSE d \in 1..10 : Digits[d] = c) - 1

RECURSIVE Pow10(_)
Pow10(e) == IF e = 0 THEN 1 ELSE 10 * Pow10(e - 1)

\* The value of a run of decimal digits, most significant first.
RECURSIVE DigitsVal(_)
DigitsVal(ds) ==
    IF ds = Empty THEN 0
    ELSE DigitsVal(SubSeq(ds, 1, Len(ds) - 1)) * 10 + DigitVal(ds[Len(ds)])

AllDigits(ds) == \A i \in 1..Len(ds) : IsDigit(ds[i])

HasSign(s) == Len(s) > 0 /\ s[1] \in {"+", "-"}
Unsigned(s) == IF HasSign(s) THEN Tail(s) ELSE s

\* value, _ := strconv.Atoi(s): an optional sign and at least one decimal
\* digit; 0 on a syntax error.
Atoi(s) ==
    LET body == Unsigned(s) IN
    IF body = Empty \/ ~AllDigits(body) THEN 0
    ELSE IF s[1] = "-" THEN 0 - DigitsVal(body) ELSE DigitsVal(body)

\* floated, _ := strconv.ParseFloat(s, 32) for decimal texts without an
\* exponent: an optional sign, digits with at most one ".", at least one
\* digit; 0 on a syntax error.  The result is [num, exp]: num / 10^exp.
ParseFloat(s) ==
    LET body == Unsigned(s)
        dots == {i \in 1..Len(body) : body[i] = "."}
        dot == IF dots = {} THEN Len(body) + 1 ELSE CHOOSE i \in dots : TRUE
        intPart == SubSeq(body, 1, dot - 1)
        fracPart == SubSeq(body, dot + 1, Len(body))
        ok == /\ Cardinality(dots) <= 1
              /\ AllDigits(intPart) /\ AllDigits(fracPart)
              /\ Len(intPart) + Len(fracPart) >= 1
        mag == DigitsVal(intPart \o fracPart)
    IN  IF ~ok THEN [num |-> 0, exp |-> 0]
        ELSE [num |-> IF s[1] = "-" THEN 0 - mag ELSE mag, exp |-> Len(fracPart)]

\* int(floated): truncation toward zero.
TruncToInt(f) ==
    IF f.num >= 0 THEN f.num \div Pow10(f.exp)
    ELSE 0 - ((0 - f.num) \div Pow10(f.exp))

\* float32(floated), kept as the shortest decimal of the same value.
RECURSIVE ToFloat32(_)
ToFloat32(f) ==
    IF f.exp > 0 /\ f.num % 10 = 0
    THEN ToFloat32([num |-> f.num \div 10, exp |-> f.exp - 1])
    ELSE f

\* case "slider": which of valueInt and valueFloat is stored.
SliderStoreAlwaysFloat(valueInt, valueFloat) == FloatV(valueFloat.num, valueFloat.exp)
SliderStore(valueInt, valueFloat) ==
    IF valueFloat.num > 0
    THEN FloatV(valueFloat.num, valueFloat.exp)
    ELSE IntV(valueInt)

\* One iteration of the loop: the value stored under setting.Key.
CoerceValue(setting) ==
    IF setting.Type \in {"enum", "number"} THEN IntV(Atoi(setting.Value))
    ELSE IF setting.Type = "slider"
    THEN LET valueInt ==
                 IF setting.Option \in {"percent", "int"}
                 THEN TruncToInt(ParseFloat(setting.Value)) ELSE 0
             valueFloat ==
                 IF setting.Option = "float"
                 THEN ToFloat32(ParseFloat(setting.Value))
                 ELSE [num |-> 0, exp |-> 0]
         IN  SliderStore(valueInt, valueFloat)
    ELSE IF setting.Type = "bool" THEN BoolV(setting.Value = <<"t", "r", "u", "e">>)
    ELSE StrV(setting.Value)

\* The whole loop: a later entry of the same key overwrites an earlier one.
CoerceSettings(xbmcSettings) ==
    LET keys == {xbmcSettings[i].Key : i \in 1..Len(xbmcSettings)}
        last(k) == CHOOSE i \in 1..Len(xbmcSettings) :
                      /\ xbmcSettings[i].Key = k
                      /\ \A j \in 1..Len(xbmcSettings) : xbmcSettings[j].Key = k => j <= i
    IN  [k \in keys |-> CoerceValue(xbmcSettings[last(k)])]

\* settings[key]: the nil interface when the key is absent.
Lookup(settings, key) == IF key \in DOMAIN settings THEN settings[key] ELSE NilV

\* ------------------------------------------------------------------------
\* Configuration construction (Reload, newConfig := Configuration{...})
\* ------------------------------------------------------------------------

\* The fields of the literal that are read from the settings map, in the
\* order of the literal: Field: settings[key].(type) * mult.
SettingFields == <<
    [field |-> "DownloadStorage", key |-> "download_storage", type |-> "int", mult |-> 1],
    [field |-> "AutoMemorySize", key |-> "auto_memory_size", type |-> "bool", mult |-> 1],
    [field |-> "AutoMemorySizeStrategy", key |-> "auto_memory_size_strategy", type |-> "int", mult |-> 1],
    [field |-> "MemorySize", key |-> "memory_size", type |-> "int", mult |-> 1048576],
    [field |-> "BufferSize", key |-> "buffer_size", type |-> "int", mult |-> 1048576],
    [field |-> "UploadRateLimit", key |-> "max_upload_rate", type |-> "int", mult |-> 1024],
    [field |-> "DownloadRateLimit", key |-> "max_download_rate", type |-> "int", mult |-> 1024],
    [field |-> "SpoofUserAgent", key |-> "spoof_user_agent", type |-> "int", mult |-> 1],
    [field |-> "LimitAfterBuffering", key |-> "limit_after_buffering", type |-> "bool", mult |-> 1],
    [field |-> "KeepDownloading", key |-> "keep_downloading", type |-> "int", mult |-> 1],
    [field |-> "KeepFilesPlaying", key |-> "keep_files_playing", type |-> "int", mult |-> 1],
    [field |-> "KeepFilesFinished", key |-> "keep_files_finished", type |-> "int", mult |-> 1],
    [field |-> "DisableBgProgress", key |-> "disable_bg_progress", type |-> "bool", mult |-> 1],
    [field |-> "DisableBgProgressPlayback", key |-> "disable_bg_progress_playback", type |-> "bool", mult |-> 1],
    [field |-> "ForceUseTrakt", key |-> "force_use_trakt", type |-> "bool", mult |-> 1],
    [field |-> "UseCacheSelection", key |-> "use_cache_selection", type |-> "bool", mult |-> 1],
    [field |-> "UseCacheSearch", key |-> "use_cache_search", type |-> "bool", mult |-> 1],
    [field |-> "CacheSearchDuration", key |-> "cache_search_duration", type |-> "int", mult |-> 1],
    [field |-> "ResultsPerPage", key |-> "results_per_page", type |-> "int", mult |-> 1],
    [field |-> "EnableOverlayStatus", key |-> "enable_overlay_status", type |-> "bool", mult |-> 1],
    [field |-> "SilentStreamStart", key |-> "silent_stream_start", type |-> "bool", mult |-> 1],
    [field |-> "ChooseStreamAuto", key |-> "choose_stream_auto", type |-> "bool", mult |-> 1],
    [field |-> "ForceLinkType", key |-> "force_link_type", type |-> "bool", mult |-> 1],
    [field |-> "UseOriginalTitle", key |-> "use_original_title", type |-> "bool", mult |-> 1],
    [field |-> "AddSpecials", key |-> "add_specials", type |-> "bool", mult |-> 1],
    [field |-> "ShowUnairedSeasons", key |-> "unaired_seasons", type |-> "bool", mult |-> 1],
    [field |-> "ShowUnairedEpisodes", key |-> "unaired_episodes", type |-> "bool", mult |-> 1],
    [field |-> "SmartEpisodeMatch", key |-> "smart_episode_match", type |-> "bool", mult |-> 1],
    [field |-> "SeedTimeLimit", key |-> "seed_time_limit", type |-> "int", mult |-> 1],
    [field |-> "DisableUpload", key |-> "disable_upload", type |-> "bool", mult |-> 1],
    [field |-> "DisableDHT", key |-> "disable_dht", type |-> "bool", mult |-> 1],
    [field |-> "DisableTCP", key |-> "disable_tcp", type |-> "bool", mult |-> 1],
    [field |-> "DisableUTP", key |-> "disable_utp", type |-> "bool", mult |-> 1],
    [field |-> "DisableUPNP", key |-> "disable_upnp", type |-> "bool", mult |-> 1],
    [field |-> "EncryptionPolicy", key |-> "encryption_policy", type |-> "int", mult |-> 1],
    [field |-> "ListenPortMin", key |-> "listen_port_min", type |-> "int", mult |-> 1],
    [field |-> "ListenPortMax", key |-> "listen_port_max", type |-> "int", mult |-> 1],
    [field |-> "ListenInterfaces", key |-> "listen_interfaces", type |-> "string", mult |-> 1],
    [field |-> "ListenAutoDetectIP", key |-> "listen_autodetect_ip", type |-> "bool", mult |-> 1],
    [field |-> "ListenAutoDetectPort", key |-> "listen_autodetect_port", type |-> "bool", mult |-> 1],
    [field |-> "ConnectionsLimit", key |-> "connections_limit", type |-> "int", mult |-> 1],
    [field |-> "Scrobble", key |-> "trakt_scrobble", type |-> "bool", mult |-> 1],
    [field |-> "TraktUsername", key |-> "trakt_username", type |-> "string", mult |-> 1],
    [field |-> "TraktToken", key |-> "trakt_token", type |-> "string", mult |-> 1],
    [field |-> "TraktRefreshToken", key |-> "trakt_refresh_token", type |-> "string", mult |-> 1],
    [field |-> "TraktTokenExpiry", key |-> "trakt_token_expiry", type |-> "int", mult |-> 1],
    [field |-> "TraktSyncFrequency", key |-> "trakt_sync", type |-> "int", mult |-> 1],
    [field |-> "TraktSyncCollections", key |-> "trakt_sync_collections", type |-> "bool", mult |-> 1],
    [field |-> "TraktSyncWatchlist", key |-> "trakt_sync_watchlist", type |-> "bool", mult |-> 1],
    [field |-> "TraktSyncUserlists", key |-> "trakt_sync_userlists", type |-> "bool", mult |-> 1],
    [field |-> "TraktSyncWatched", key |-> "trakt_sync_watched", type |-> "bool", mult |-> 1],
    [field |-> "TraktSyncWatchedBack", key |-> "trakt_sync_watchedback", type |-> "bool", mult |-> 1],
    [field |-> "UpdateFrequency", key |-> "library_update_frequency", type |-> "int", mult |-> 1],
    [field |-> "UpdateDelay", key |-> "library_update_delay", type |-> "int", mult |-> 1],
    [field |-> "UpdateAutoScan", key |-> "library_auto_scan", type |-> "bool", mult |-> 1],
    [field |-> "PlayResume", key |-> "play_resume", type |-> "bool", mult |-> 1],
    [field |-> "UseCloudHole", key |-> "use_cloudhole", type |-> "bool", mult |-> 1],
    [field |-> "CloudHoleKey", key |-> "cloudhole_key", type |-> "string", mult |-> 1],
    [field |-> "TMDBApiKey", key |-> "tmdb_api_key", type |-> "string", mult |-> 1],
    [field |-> "OSDBUser", key |-> "osdb_user", type |-> "string", mult |-> 1],
    [field |-> "OSDBPass", key |-> "osdb_pass", type |-> "string", mult |-> 1],
    [field |-> "OSDBLanguage", key |-> "osdb_language", type |-> "string", mult |-> 1],
    [field |-> "OSDBAutoLanguage", key |-> "osdb_auto_language", type |-> "bool", mult |-> 1],
    [field |-> "SortingModeMovies", key |-> "sorting_mode_movies", type |-> "int", mult |-> 1],
    [field |-> "SortingModeShows", key |-> "sorting_mode_shows", type |-> "int", mult |-> 1],
    [field |-> "ResolutionPreferenceMovies", key |-> "resolution_preference_movies", type |-> "int", mult |-> 1],
    [field |-> "ResolutionPreferenceShows", key |-> "resolution_preference_shows", type |-> "int", mult |-> 1],
    [field |-> "PercentageAdditionalSeeders", key |-> "percentage_additional_seeders", type |-> "int", mult |-> 1],
    [field |-> "UsePublicDNS", key |-> "use_public_dns", type |-> "bool", mult |-> 1],
    [field |-> "PublicDNSList", key |-> "public_dns_list", type |-> "string", mult |-> 1],
    [field |-> "OpennicDNSList", key |-> "opennic_dns_list", type |-> "string", mult |-> 1],
    [field |-> "CustomProviderTimeoutEnabled", key |-> "custom_provider_timeout_enabled", type |-> "bool", mult |-> 1],
    [field |-> "CustomProviderTimeout", key |-> "custom_provider_timeout", type |-> "int", mult |-> 1],
    [field |-> "ProxyType", key |-> "proxy_type", type |-> "int", mult |-> 1],
    [field |-> "ProxyEnabled", key |-> "proxy_enabled", type |-> "bool", mult |-> 1],
    [field |-> "ProxyHost", key |-> "proxy_host", type |-> "string", mult |-> 1],
    [field |-> "ProxyPort", key |-> "proxy_port", type |-> "int", mult |-> 1],
    [field |-> "ProxyLogin", key |-> "proxy_login", type |-> "string", mult |-> 1],
    [field |-> "ProxyPassword", key |-> "proxy_password", type |-> "string", mult |-> 1],
    [field |-> "CompletedMove", key |-> "completed_move", type |-> "bool", mult |-> 1],
    [field |-> "CompletedMoviesPath", key |-> "completed_movies_path", type |-> "string", mult |-> 1],
    [field |-> "CompletedShowsPath", key |-> "completed_shows_path", type |-> "string", mult |-> 1]
>>

ReadKeys == {SettingFields[i].key : i \in 1..Len(SettingFields)}
FieldNames ==
    {SettingFields[i].field : i \in 1..Len(SettingFields)}
        \cup {"DownloadPath", "LibraryPath", "TorrentsPath", "Language", "ProxyURL",
              "InfoPath", "TemporaryPath"}
StringFields ==
    {SettingFields[i].field : i \in {j \in 1..Len(SettingFields) : SettingFields[j].type = "string"}}
        \cup {"DownloadPath", "LibraryPath", "TorrentsPath", "Language", "ProxyURL",
              "InfoPath", "TemporaryPath"}
BoolFields ==
    {SettingFields[i].field : i \in {j \in 1..Len(SettingFields) : SettingFields[j].type = "bool"}}

\* &Configuration{}: every field at its zero value.
ZeroConfiguration ==
    [f \in FieldNames |->
        IF f \in StringFields THEN Empty ELSE IF f \in BoolFields THEN FALSE ELSE 0]

\* settings[key].(type): whether the type assertion panics.
AssertionNeverPanics(v, type) == FALSE
AssertionPanics(v, type) == v.t # type

\* The asserted value, scaled as the literal scales it.
FieldValue(v, type, mult) ==
    IF type = "int" THEN v.n * mult
    ELSE IF type = "bool" THEN v.b
    ELSE v.s

\* The composite literal: panics when any type assertion fails, otherwise
\* the new value.  ProxyURL is not set by the literal; InfoPath is the
\* Path of the descriptor that Info points to.
NewConfiguration(info, downloadPath, libraryPath, language, settings) ==
    LET entry(f) == SettingFields[CHOOSE i \in 1..Len(SettingFields) : SettingFields[i].field = f]
    IN  IF \E i \in 1..Len(SettingFields) :
               AssertionPanics(Lookup(settings, SettingFields[i].key), SettingFields[i].type)
        THEN [panic |-> TRUE, cfg |-> ZeroConfiguration]
        ELSE [panic |-> FALSE,
              cfg |-> [f \in FieldNames |->
                  IF f = "DownloadPath" THEN downloadPath
                  ELSE IF f = "LibraryPath" THEN libraryPath
                  ELSE IF f = "TorrentsPath" THEN Join(downloadPath, TorrentsName)
                  ELSE IF f = "Language" THEN language
                  ELSE IF f = "ProxyURL" THEN Empty
                  ELSE IF f = "InfoPath" THEN info.Path
                  ELSE IF f = "TemporaryPath" THEN info.TempPath
                  ELSE FieldValue(Lookup(settings, entry(f).key), entry(f).type, entry(f).mult)]]

\* ------------------------------------------------------------------------
\* Derived values (Reload, after the literal)
\* ------------------------------------------------------------------------

maxMemorySize == 209715200

\* pct := uint64(5 + 5*(strategy-1)); mem := memory.TotalMemory() / 100 * pct;
\* if mem > 0 { MemorySize = int(mem) }.  The uint64 product converted back
\* to int is the signed product, and it is > 0 as a uint64 exactly when it
\* is not 0 (no product of the model reaches 2^63).
AutoMemory(c, totalMemory) ==
    LET pct == 5 + (5 * (c.AutoMemorySizeStrategy - 1))
        mem == (totalMemory \div 100) * pct
    IN  IF mem # 0 THEN mem ELSE c.MemorySize

\* if newConfig.MemorySize > maxMemorySize { newConfig.MemorySize = maxMemorySize }
CapMemoryOff(size) == size
CapMemory(size) == IF size > maxMemorySize THEN maxMemorySize ELSE size

\* if newConfig.DownloadStorage == 1 { ... }
DeriveStorage(c, totalMemory) ==
    IF c.DownloadStorage = 1
    THEN LET c1 == [c EXCEPT !.CompletedMove = FALSE,
                             !.KeepDownloading = 2,
                             !.KeepFilesFinished = 2,
                             !.KeepFilesPlaying = 2]
         IN  IF c1.AutoMemorySize
             THEN IF c1.AutoMemorySizeStrategy = 0
                  THEN [c1 EXCEPT !.MemorySize = 40 * 1024 * 1024]
                  ELSE [c1 EXCEPT !.MemorySize = CapMemory(AutoMemory(c1, totalMemory))]
             ELSE c1
    ELSE c

\* Set default Trakt Frequency
DeriveTrakt(c) ==
    IF c.TraktToken # Empty /\ c.TraktSyncFrequency = 0
    THEN [c EXCEPT !.TraktSyncFrequency = 6]
    ELSE c

\* Setup OSDB language
DeriveOSDB(c) ==
    IF c.OSDBAutoLanguage \/ c.OSDBLanguage = Empty
    THEN [c EXCEPT !.OSDBLanguage = c.Language]
    ELSE c

proxyTypes == <<
    <<"S", "o", "c", "k", "s", "4">>,
    <<"S", "o", "c", "k", "s", "5">>,
    <<"H", "T", "T", "P">>,
    <<"H", "T", "T", "P", "S">>
>>

\* strconv.Itoa(n)
RECURSIVE ItoaNat(_)
ItoaNat(n) ==
    IF n < 10 THEN <<Digits[n + 1]>>
    ELSE ItoaNat(n \div 10) \o <<Digits[(n % 10) + 1]>>
Itoa(n) == IF n < 0 THEN <<"-">> \o ItoaNat(0 - n) ELSE ItoaNat(n)

\* The credential segment of the proxy URL.
ProxyCredentialsNever(login, password) == Empty
ProxyCredentials(login, password) ==
    IF login # Empty \/ password # Empty
    THEN login \o <<":">> \o password \o <<"@">>
    ELSE Empty

\* Collect proxy settings: proxyTypes[ProxyType] panics when the index is
\* out of range.
DeriveProxy(c) ==
    IF c.ProxyEnabled /\ c.ProxyHost # Empty
    THEN IF c.ProxyType < 0 \/ c.ProxyType >= Len(proxyTypes)
         THEN [panic |-> TRUE, cfg |-> c]
         ELSE [panic |-> FALSE,
               cfg |-> [c EXCEPT !.ProxyURL =
                   proxyTypes[c.ProxyType + 1] \o <<":", "/", "/">>
                       \o ProxyCredentials(c.ProxyLogin, c.ProxyPassword)
                       \o c.ProxyHost \o <<":">> \o Itoa(c.ProxyPort)]]
    ELSE [panic |-> FALSE, cfg |-> c]

\* strings.Replace(s, " ", "", -1)
RECURSIVE StripSpaces(_)
StripSpaces(s) ==
    IF s = Empty THEN Empty
    ELSE IF s[1] = " " THEN StripSpaces(Tail(s))
    ELSE <<s[1]>> \o StripSpaces(Tail(s))

\* strings.Split(s, ",")
RECURSIVE SplitComma(_)
SplitComma(s) ==
    LET commas == {i \in 1..Len(s) : s[i] = ","} IN
    IF commas = {} THEN <<s>>
    ELSE LET i == CHOOSE k \in commas : \A j \in commas : k <= j
         IN  <<SubSeq(s, 1, i - 1)>> \o SplitComma(SubSeq(s, i + 1, Len(s)))

\* dns_resolver.New(servers) as the registry's address list, and the
\* built-in lists of the package variables.
DefaultResolverPublic == <<
    <<"8", ".", "8", ".", "8", ".", "8">>,
    <<"8", ".", "8", ".", "4", ".", "4">>,
    <<"9", ".", "9", ".", "9", ".", "9">>
>>
DefaultResolverOpennic == <<
    <<"1", "9", "3", ".", "1", "8", "3", ".", "9", "8", ".", "6", "6">>,
    <<"1", "7", "2", ".", "1", "0", "4", ".", "1", "3", "6", ".", "2", "4", "3">>,
    <<"8", "9", ".", "1", "8", ".", "2", "7", ".", "1", "6", "7">>
>>

\* if list != "" { Resolver = dns_resolver.New(strings.Split(list, ",")) }
ResolverAfter(resolver, list) == IF list # Empty THEN SplitComma(list) ELSE resolver

\* Setting default connection limit per torrent.
DeriveConnectionsLimit(c) ==
    IF c.ConnectionsLimit = 0 THEN [c EXCEPT !.ConnectionsLimit = 50] ELSE c


\* Everything Reload does to newConfig and to the resolvers between the
\* literal and the swap, in the order of the code.  A panic of the proxy
\* step leaves the resolvers as they were.
DeriveConfiguration(c, totalMemory, resolverPublic, resolverOpennic) ==
    LET pr == DeriveProxy(DeriveOSDB(DeriveTrakt(DeriveStorage(c, totalMemory))))
        publicList == StripSpaces(pr.cfg.PublicDNSList)
        opennicList == StripSpaces(pr.cfg.OpennicDNSList)
    IN  IF pr.panic
        THEN [panic |-> TRUE, cfg |-> pr.cfg,
              public |-> resolverPublic, opennic |-> resolverOpennic]
        ELSE [panic |-> FALSE,
              cfg |-> DeriveConnectionsLimit(
                          [pr.cfg EXCEPT !.PublicDNSList = publicList,
                                         !.OpennicDNSList = opennicList]),
              public |-> ResolverAfter(resolverPublic, publicList),
              opennic |-> ResolverAfter(resolverOpennic, opennicList)]

\* ------------------------------------------------------------------------
\* State
\* ------------------------------------------------------------------------

VARIABLES
    heap,             \* allocated Configuration values, by address
    config,           \* var config: the published pointer
    lock,             \* var lock sync.RWMutex
    settingsWarning,  \* var settingsWarning
    ResolverPublic,   \* var ResolverPublic (its address list)
    ResolverOpennic,  \* var ResolverOpennic (its address list)
    fs,               \* the filesystem
    settingsOpened,   \* the host's xbmc.AddonSettingsOpened()
    hostCalls,        \* per Reload goroutine: its UI calls to the host, in order
    exited,           \* os.Exit was called
    exitStatus,       \* its status
    addons,           \* the host's script add-ons, as xbmc.GetAddons lists them
    pc,               \* per Reload goroutine: where it is
    downloadPath,     \* Reload's local downloadPath
    libraryPath,      \* Reload's local libraryPath
    newConfig,        \* Reload's local newConfig (its address)
    message,          \* the deferred function's local message
    returned,         \* the pointer the last Reload call returned
    gpc,              \* per Get goroutine: where it is
    got,              \* the pointer the last Get call returned (none while a call runs)
    started,          \* number of Reload calls started
    ticker,           \* waitForSettingsClosed's local ticker
    bpc,              \* per CheckBurst goroutine: where it is
    enabledProviders, \* CheckBurst's local enabledProviders (the add-on IDs)
    burstCalls,       \* per CheckBurst goroutine: its calls to the host, in order
    providerAt,       \* CheckBurst's position in its loop over enabledProviders
    icon,             \* what AddonIcon() returned to CheckBurst
    published,        \* history: the addresses stored into config, in order
    snapshot,         \* history: each published value as it was when stored
    getFrom,          \* history: Len(published) when the Get took the read lock
    before,           \* history: config and Len(published) when the Reload call started
    warned,           \* history: the warning the goroutine's path validation recorded
    dnsApplied,       \* history: the DNS settings of the calls that rebuilt the resolvers, in order
    arg,              \* the inputs of the run; a function applied alone: its argument
    res               \* a function applied alone: its result

alone == <<arg, res>>
histVars == <<published, snapshot, getFrom, before, warned, dnsApplied>>
hostVars == <<fs, settingsOpened, hostCalls, exited, exitStatus, addons>>
pkgVars == <<heap, config, lock, settingsWarning, ResolverPublic, ResolverOpennic>>
reloadVars == <<pc, downloadPath, libraryPath, newConfig, message, returned, started, ticker>>
getVars == <<gpc, got>>
burstVars == <<bpc, enabledProviders, burstCalls, providerAt, icon>>
program == <<pkgVars, hostVars, reloadVars, getVars, burstVars, histVars>>
vars == <<program, alone>>

\* ------------------------------------------------------------------------
\* Bounds and inputs
\* ------------------------------------------------------------------------

\* Reload calls started in one run.
MaxReloads == 2

\* Longest setting value of the coercion inputs.
MaxValueLen == 3

Reloaders == {"r1", "r2"}
Getters == {"g1"}

\* Addresses: 0 is the initial &Configuration{}.
NoAddr == 0 - 1
Addrs == 0..(MaxReloads + 1)

\* What the host's path translation returns for a path setting.
PathUnset == Empty
PathW == <<"/", "w", "/">>
PathV == <<"/", "v", "/">>
PathR == <<"/", "r", "/">>
PathF == <<"/", "f", "/">>
PathMissing == <<"/", "m", "/">>
PathNfs == <<"n", "f", "s", ":", "/", "/", "h", "/">>
PathSmb == <<"s", "m", "b", ":", "/", "/", "h", "/">>
PathInW == <<"/", "w", "/", "x">>

Root == <<"/">>
DirW == <<"/", "w">>
DirV == <<"/", "v">>
DirR == <<"/", "r">>
FileF == <<"/", "f">>

\* xbmc.TranslatePath("special://temp") and info.TempPath, which is
\* filepath.Join of it and "elementum".
SpecialTemp == <<"/", "t">>
TempPath == Join(SpecialTemp, <<"e", "l", "e", "m", "e", "n", "t", "u", "m">>)
TempLeftover == Join(TempPath, <<"x">>)

\* The root directory (not writable by the user) and the host's temporary
\* directory, in which an earlier run left Elementum's directory and a
\* file.
BaseFs ==
    (Root :> DirEntry(FALSE)) @@ (SpecialTemp :> DirEntry(TRUE))
        @@ (TempPath :> DirEntry(TRUE)) @@ (TempLeftover :> FileEntry(TRUE))

\* The filesystem the program starts with: two writable directories, a
\* read-only directory and a regular file.
InitialFs ==
    (DirW :> DirEntry(TRUE)) @@ (DirV :> DirEntry(TRUE))
        @@ (DirR :> DirEntry(FALSE)) @@ (FileF :> FileEntry(TRUE)) @@ BaseFs

\* The same with a probe file left in /w by a run that was killed between
\* os.Create and os.Remove.
FsLeftoverMarker == (Join(DirW, WritableName) :> FileEntry(TRUE)) @@ InitialFs

\* Only /v is writable.
FsOnlyV ==
    (DirW :> DirEntry(FALSE)) @@ (DirV :> DirEntry(TRUE))
        @@ (DirR :> DirEntry(FALSE)) @@ (FileF :> FileEntry(TRUE)) @@ BaseFs

\* Nothing is writable, /v is not there and neither is Elementum's
\* temporary directory.
FsReadOnly ==
    (Root :> DirEntry(FALSE)) @@ (SpecialTemp :> DirEntry(FALSE))
        @@ (DirW :> DirEntry(FALSE)) @@ (DirR :> DirEntry(FALSE)) @@ (FileF :> FileEntry(FALSE))

\* The read-only directory /r holds a probe file the user may write: it
\* was left there while the directory was writable.
FsReadOnlyMarker == (Join(DirR, WritableName) :> FileEntry(TRUE)) @@ InitialFs

\* The writable directory /w holds a probe file the user may not write.
FsLockedMarker == (Join(DirW, WritableName) :> FileEntry(FALSE)) @@ InitialFs

\* The user may write the root directory.
FsWritableRoot == (Root :> DirEntry(TRUE)) @@ InitialFs

FsChoices ==
    {InitialFs, FsLeftoverMarker, FsOnlyV, FsReadOnly, FsReadOnlyMarker, FsLockedMarker,
     FsWritableRoot}

HostPathChoices ==
    {PathUnset, PathW, PathV, PathR, PathF, PathMissing, PathNfs, PathSmb, PathInW}

\* Arguments of IsWritablePath: the translated settings, and a few more.
WritableArgChoices ==
    {TranslatePath(h) : h \in HostPathChoices}
        \cup {Empty, Root, <<"n", "f", "s", "d", "a", "t", "a">>, <<"/", "w", "/", "y">>,
              <<"s", "m", "b">>, <<"/", "f", "/", "y">>}

\* The path settings a Reload call of the program may find.
DownloadPathChoices == {PathUnset, PathW}
LibraryPathChoices == {PathUnset, PathMissing}

LanguageEn == <<"e", "n">>

\* One entry of xbmc.GetAllSettings().
Raw(key, type, option, value) == [Key |-> key, Type |-> type, Option |-> option, Value |-> value]

True == <<"t", "r", "u", "e">>
False == <<"f", "a", "l", "s", "e">>
BoolText(b) == IF b THEN True ELSE False

\* A settings list in which every key Reload reads is declared with the
\* kind its type assertion expects and holds a zero value.
DefaultRaw(e) ==
    IF e.type = "int" THEN Raw(e.key, "number", "", <<"0">>)
    ELSE IF e.type = "bool" THEN Raw(e.key, "bool", "", False)
    ELSE Raw(e.key, "text", "", Empty)
BaseSettings == [i \in 1..Len(SettingFields) |-> DefaultRaw(SettingFields[i])]

\* The list with the entries of the keys of rs replaced by rs.
RECURSIVE WithAll(_, _)
WithAll(list, rs) ==
    IF rs = <<>> THEN list
    ELSE WithAll([i \in 1..Len(list) |-> IF list[i].Key = rs[1].Key THEN rs[1] ELSE list[i]], Tail(rs))

\* The list without the entry of key.
Without(list, key) == SelectSeq(list, LAMBDA e : e.Key # key)

PublicListSpaced == <<"1", ".", "1", ".", "1", ".", "1", ",", " ", "8", ".", "8", ".", "8", ".", "8", " ", ",", "9", ".", "9", ".", "9", ".", "9">>
OpennicListTabbed == <<"5", ".", "5", ".", "5", ".", "5", ",", "\t", "6", ".", "6", ".", "6", ".", "6">>

\* Memory storage with automatic sizing, a proxy, a public DNS list
\* written with spaces, no OpenNIC list.
SettingsMemoryProxy ==
    WithAll(BaseSettings, <<
        Raw("download_storage", "enum", "", <<"1">>),
        Raw("auto_memory_size", "bool", "", True),
        Raw("auto_memory_size_strategy", "enum", "", <<"1">>),
        Raw("memory_size", "slider", "int", <<"1", "0", "0", ".", "0">>),
        Raw("completed_move", "bool", "", True),
        Raw("trakt_token", "text", "", <<"k">>),
        Raw("connections_limit", "number", "", <<"2", "0">>),
        Raw("proxy_enabled", "bool", "", True),
        Raw("proxy_type", "enum", "", <<"1">>),
        Raw("proxy_host", "text", "", <<"h">>),
        Raw("proxy_port", "number", "", <<"1", "0", "8", "0">>),
        Raw("public_dns_list", "text", "", PublicListSpaced)>>)

\* File storage; the public list is blanks, the OpenNIC list is written
\* with a tab after its comma.
SettingsOpennic ==
    WithAll(BaseSettings, <<
        Raw("memory_size", "slider", "int", <<"1", "0", "0", ".", "0">>),
        Raw("public_dns_list", "text", "", <<" ", " ">>),
        Raw("opennic_dns_list", "text", "", OpennicListTabbed)>>)

\* A key Reload reads is missing.
SettingsMissingKey == Without(BaseSettings, "proxy_port")

\* A slider read as an integer is declared with the float option.
SettingsFloatSlider ==
    WithAll(BaseSettings, <<Raw("memory_size", "slider", "float", <<"1", ".", "5">>)>>)

\* The proxy is enabled with a type outside the list of schemes.
SettingsProxyType ==
    WithAll(BaseSettings, <<
        Raw("proxy_enabled", "bool", "", True),
        Raw("proxy_type", "enum", "", <<"7">>),
        Raw("proxy_host", "text", "", <<"h">>)>>)

\* What xbmc.GetAllSettings() may return to a Reload call of the program.
RawChoices == <<
    SettingsMemoryProxy, SettingsOpennic,
    SettingsMissingKey, SettingsFloatSlider, SettingsProxyType>>

\* The coerced maps of those lists.
TypedChoices == [r \in 1..Len(RawChoices) |-> CoerceSettings(RawChoices[r])]

\* memory.TotalMemory() readings of the program (1 GiB).
TotalMemoryChoices == {1073741824}

\* xbmc.GetPlatform(): a descriptor, or nil.
NoPlatform == [nil |-> TRUE, OS |-> ""]
PlatformLinux == [nil |-> FALSE, OS |-> "linux"]
PlatformChoices == {NoPlatform, PlatformLinux}

\* xbmc.GetAddonInfo() after the translation of its paths (no store
\* install of Windows, no legacy mount of Android: the descriptor is
\* used as the host gave it).
HostInfo == [Path |-> <<"/", "a">>, TempPath |-> TempPath]

\* Add-on IDs.
ElementumPrefix == <<"s", "c", "r", "i", "p", "t", ".", "e", "l", "e", "m", "e", "n", "t", "u", "m", ".">>
AddonBurst == ElementumPrefix \o <<"b", "u", "r", "s", "t">>
AddonProvider == ElementumPrefix \o <<"x">>
AddonOther == <<"s", "c", "r", "i", "p", "t", ".", "o">>

\* The host's script add-ons when the program starts: a provider of
\* Elementum and another script, neither Burst.
InitialAddons == <<[ID |-> AddonProvider, Enabled |-> FALSE], [ID |-> AddonOther, Enabled |-> TRUE]>>

\* CheckBurst goroutines: one per Reload call that returned, named by the
\* address of the call's newConfig.
Bursts == 1..MaxReloads

\* Settings of the single-call runs.
Text80 == <<"8", "0">>
Text1080 == <<"1", "0", "8", "0">>
HostH == <<"h">>
LoginU == <<"u">>
PasswordP == <<"p">>

\* The settings list of an input: the storage, memory and proxy settings
\* of the input, each declared with a kind whose coerced value has the type
\* Reload reads the key with.
PlainRaw(a) ==
    WithAll(BaseSettings, <<
        Raw("download_storage", "enum", "", Itoa(a.storage)),
        Raw("auto_memory_size", "bool", "", BoolText(a.auto)),
        Raw("auto_memory_size_strategy", "enum", "", Itoa(a.strategy)),
        Raw("memory_size", "slider", "int", Itoa(a.memory) \o <<".", "0">>),
        Raw("proxy_enabled", "bool", "", BoolText(a.enabled)),
        Raw("proxy_type", "enum", "", Itoa(a.type)),
        Raw("proxy_host", "text", "", a.host),
        Raw("proxy_port", "number", "", Itoa(a.port)),
        Raw("proxy_login", "text", "", a.login),
        Raw("proxy_password", "text", "", a.password)>>)

\* Anomalies of a settings list.  missing: the key is not in the list.
\* kind: the entry is declared with a kind whose coerced value has another
\* type than Reload reads the key with.  value: the entry has the expected
\* kind and a text that does not parse, or a float slider that is not
\* positive.
NoAnomaly == [tag |-> "none", field |-> "", entry |-> Raw("", "", "", Empty)]
Anomalies == {
    [tag |-> "missing", field |-> "ProxyPort", entry |-> Raw("proxy_port", "", "", Empty)],
    [tag |-> "missing", field |-> "DownloadStorage", entry |-> Raw("download_storage", "", "", Empty)],
    [tag |-> "missing", field |-> "CompletedShowsPath", entry |-> Raw("completed_shows_path", "", "", Empty)],
    [tag |-> "missing", field |-> "ConnectionsLimit", entry |-> Raw("connections_limit", "", "", Empty)],
    [tag |-> "kind", field |-> "BufferSize", entry |-> Raw("buffer_size", "slider", "float", <<"1", ".", "5">>)],
    [tag |-> "kind", field |-> "BufferSize", entry |-> Raw("buffer_size", "slider", "float", <<"2", "0">>)],
    [tag |-> "kind", field |-> "BufferSize", entry |-> Raw("buffer_size", "text", "", <<"2", "0">>)],
    [tag |-> "kind", field |-> "LimitAfterBuffering", entry |-> Raw("limit_after_buffering", "number", "", <<"1">>)],
    [tag |-> "kind", field |-> "CompletedShowsPath", entry |-> Raw("completed_shows_path", "bool", "", True)],
    [tag |-> "kind", field |-> "ConnectionsLimit", entry |-> Raw("connections_limit", "bool", "", False)],
    [tag |-> "value", field |-> "BufferSize", entry |-> Raw("buffer_size", "slider", "float", <<"0", ".", "0">>)],
    [tag |-> "value", field |-> "BufferSize", entry |-> Raw("buffer_size", "slider", "float", <<"-", "1", ".", "5">>)],
    [tag |-> "value", field |-> "BufferSize", entry |-> Raw("buffer_size", "slider", "int", <<"x">>)],
    [tag |-> "value", field |-> "BufferSize", entry |-> Raw("buffer_size", "slider", "", <<"2", "0">>)],
    [tag |-> "value", field |-> "SpoofUserAgent", entry |-> Raw("spoof_user_agent", "enum", "", <<"x", "2">>)],
    [tag |-> "value", field |-> "SpoofUserAgent", entry |-> Raw("spoof_user_agent", "number", "", Empty)]}

\* The list as the host returns it.
RawOf(a) ==
    IF a.anomaly.tag = "none" THEN PlainRaw(a)
    ELSE IF a.anomaly.tag = "missing" THEN Without(PlainRaw(a), a.anomaly.entry.Key)
    ELSE WithAll(PlainRaw(a), <<a.anomaly.entry>>)

PlainInput ==
    [kind |-> "settings", storage |-> 0, auto |-> FALSE, strategy |-> 0, memory |-> 100, total |-> 1073741824,
     enabled |-> FALSE, type |-> 0, host |-> Empty, port |-> 0, login |-> Empty,
     password |-> Empty, anomaly |-> NoAnomaly]

MemoryInputs ==
    {[PlainInput EXCEPT !.storage = st, !.auto = au, !.strategy = s, !.memory = m, !.total = t] :
        st \in {0, 1}, au \in BOOLEAN, s \in {0, 1, 2, 5, 20}, m \in {0, 50, 300},
        t \in {0, 99, 150, 1073741824, 2147483647}}

ProxyInputs ==
    {[PlainInput EXCEPT !.enabled = en, !.type = ty, !.host = h, !.port = po,
                        !.login = lo, !.password = pw] :
        en \in BOOLEAN, ty \in {0 - 1, 0, 1, 2, 3, 4}, h \in {Empty, HostH},
        po \in {80, 1080}, lo \in {Empty, LoginU}, pw \in {Empty, PasswordP}}

AnomalyInputs ==
    {[PlainInput EXCEPT !.anomaly = an, !.storage = st, !.auto = (st = 1)] :
        an \in Anomalies, st \in {0, 1}}

DeriveInputs == MemoryInputs \cup ProxyInputs \cup AnomalyInputs

\* ------------------------------------------------------------------------
\* The inputs of a run.  arg.kind = "program": any number of calls up to
\* MaxReloads on any goroutine, each with any of the host's answers.
\* "paths": one call with the path settings of arg.  "settings": one call
\* with the settings list and the memory reading of arg.
\* ------------------------------------------------------------------------

ProgramRun == [kind |-> "program"]
Callers == IF arg.kind = "program" THEN Reloaders ELSE {"r1"}
MaxCalls == IF arg.kind = "program" THEN MaxReloads ELSE 1
PlatformInputs == IF arg.kind = "program" THEN PlatformChoices ELSE {PlatformLinux}
DownloadPathInputs ==
    IF arg.kind = "paths" THEN {arg.download}
    ELSE IF arg.kind = "settings" THEN {PathW}
    ELSE DownloadPathChoices
LibraryPathInputs ==
    IF arg.kind = "paths" THEN {arg.library}
    ELSE IF arg.kind = "settings" THEN {PathW}
    ELSE LibraryPathChoices
SettingsInputs ==
    IF arg.kind = "paths" THEN {TypedChoices[1]}
    ELSE IF arg.kind = "settings" THEN {CoerceSettings(RawOf(arg))}
    ELSE {TypedChoices[r] : r \in 1..Len(TypedChoices)}
TotalMemoryInputs == IF arg.kind = "settings" THEN {arg.total} ELSE TotalMemoryChoices

\* ------------------------------------------------------------------------
\* Reload
\* ------------------------------------------------------------------------

Localize30113 == [code |-> "LOCALIZE[30113]", path |-> Empty]
Localize30314 == [code |-> "LOCALIZE[30314]", path |-> Empty]

\* A string header made of parts of two texts: what an unsynchronised read
\* or write of settingsWarning may leave when it races with a write.
TornWarning == [code |-> "torn", path |-> Empty]

\* os.RemoveAll(info.TempPath); os.MkdirAll(info.TempPath, 0777)
RecreateTemp(f, info) == osMkdirAll(osRemoveAll(f, info.TempPath), info.TempPath)

\* platform.OS on a nil platform panics.
PlatformPanics(platform) == platform.nil

\* The download path: dlPath is the translated setting.  A failure is the
\* warning recorded before panic(settingsWarning).
ValidateDownloadPath(f, dlPath) ==
    LET d == IsWritablePath(f, dlPath)
    IN  IF dlPath = Dot
        THEN [panic |-> TRUE, warning |-> Localize30113, fs |-> f]
        ELSE IF d.err # Nil
        THEN [panic |-> TRUE, warning |-> d.err, fs |-> d.fs]
        ELSE [panic |-> FALSE, warning |-> NoWarning, fs |-> d.fs]

\* The library path: libPath is the translated setting.
ValidateLibraryPathRecheckDefault(f, dlPath, libPath) ==
    LET l == IsWritablePath(f, libPath)
    IN  IF l.err # Nil
        THEN [panic |-> TRUE, warning |-> l.err, fs |-> l.fs, libraryPath |-> libPath]
        ELSE [panic |-> FALSE, warning |-> NoWarning, fs |-> l.fs, libraryPath |-> libPath]
ValidateLibraryPath(f, dlPath, libPath) ==
    LET l == IsWritablePath(f, libPath)
    IN  IF libPath = Dot
        THEN [panic |-> FALSE, warning |-> NoWarning, fs |-> f, libraryPath |-> dlPath]
        ELSE IF l.err # Nil
        THEN [panic |-> TRUE, warning |-> l.err, fs |-> l.fs, libraryPath |-> libPath]
        ELSE [panic |-> FALSE, warning |-> NoWarning, fs |-> l.fs, libraryPath |-> libPath]

\* settingsWarning = w, written without synchronisation: the other Reload
\* goroutines write it too, and no lock orders the writes.  When another
\* goroutine has written a different text, the variable may be left with a
\* header made of parts of both.
StoreOutcomes(p, w) ==
    {w} \cup (IF \E q \in Reloaders \ {p} : warned[q] \notin {NoWarning, w}
              THEN {TornWarning} ELSE {})

\* The address of a newly allocated newConfig: each call has its own.
NewAddrShared(h) == 1
NewAddr(h) == CHOOSE a \in Addrs : a \notin DOMAIN h /\ \A b \in DOMAIN h : b < a

\* Reload from its first line to the android check: the host's
\* descriptors, the temporary directory, platform.OS.
ReloadStart(p) ==
    /\ ~exited
    /\ pc[p] = "idle"
    /\ p \in Callers
    /\ started < MaxCalls
    /\ started' = started + 1
    /\ before' = [before EXCEPT ![p] = [config |-> config, stores |-> Len(published)]]
    /\ warned' = [warned EXCEPT ![p] = NoWarning]
    /\ newConfig' = [newConfig EXCEPT ![p] = NoAddr]
    /\ fs' = RecreateTemp(fs, HostInfo)
    /\ \E platform \in PlatformInputs :
           pc' = [pc EXCEPT ![p] = IF PlatformPanics(platform) THEN "recover" ELSE "download"]
    /\ UNCHANGED <<pkgVars, settingsOpened, hostCalls, exited, exitStatus, addons>>
    /\ UNCHANGED <<downloadPath, libraryPath, message, returned, ticker>>
    /\ UNCHANGED <<getVars, burstVars, alone>>
    /\ UNCHANGED <<published, snapshot, getFrom, dnsApplied>>

\* downloadPath := TranslatePath(xbmc.GetSettingString("download_path"))
\* and its check.
ReloadDownloadPath(p) ==
    /\ ~exited
    /\ pc[p] = "download"
    /\ \E dl \in DownloadPathInputs :
           LET v == ValidateDownloadPath(fs, TranslatePath(dl)) IN
           /\ fs' = v.fs
           /\ downloadPath' = [downloadPath EXCEPT ![p] = TranslatePath(dl)]
           /\ warned' = [warned EXCEPT ![p] = v.warning]
           /\ IF v.panic
              THEN \E w \in StoreOutcomes(p, v.warning) : settingsWarning' = w
              ELSE settingsWarning' = settingsWarning
           /\ pc' = [pc EXCEPT ![p] = IF v.panic THEN "recover" ELSE "library"]
    /\ UNCHANGED <<heap, config, lock, ResolverPublic, ResolverOpennic>>
    /\ UNCHANGED <<settingsOpened, hostCalls, exited, exitStatus, addons>>
    /\ UNCHANGED <<libraryPath, newConfig, message, returned, started, ticker>>
    /\ UNCHANGED <<getVars, burstVars, alone>>
    /\ UNCHANGED <<published, snapshot, getFrom, before, dnsApplied>>

\* libraryPath := TranslatePath(xbmc.GetSettingString("library_path"))
\* and its check.
ReloadLibraryPath(p) ==
    /\ ~exited
    /\ pc[p] = "library"
    /\ \E lib \in LibraryPathInputs :
           LET v == ValidateLibraryPath(fs, downloadPath[p], TranslatePath(lib)) IN
           /\ fs' = v.fs
           /\ libraryPath' = [libraryPath EXCEPT ![p] = v.libraryPath]
           /\ warned' = [warned EXCEPT ![p] = v.warning]
           /\ IF v.panic
              THEN \E w \in StoreOutcomes(p, v.warning) : settingsWarning' = w
              ELSE settingsWarning' = settingsWarning
           /\ pc' = [pc EXCEPT ![p] = IF v.panic THEN "recover" ELSE "settings"]
    /\ UNCHANGED <<heap, config, lock, ResolverPublic, ResolverOpennic>>
    /\ UNCHANGED <<settingsOpened, hostCalls, exited, exitStatus, addons>>
    /\ UNCHANGED <<downloadPath, newConfig, message, returned, started, ticker>>
    /\ UNCHANGED <<getVars, burstVars, alone>>
    /\ UNCHANGED <<published, snapshot, getFrom, before, dnsApplied>>

\* xbmc.GetAllSettings(), the coercion loop and the composite literal.  A
\* failed type assertion panics into the deferred function.
ReloadConstruct(p) ==
    /\ ~exited
    /\ pc[p] = "settings"
    /\ \E settings \in SettingsInputs :
           LET lit == NewConfiguration(HostInfo, downloadPath[p], libraryPath[p], LanguageEn, settings)
               a == NewAddr(heap)
           IN  IF lit.panic
               THEN /\ pc' = [pc EXCEPT ![p] = "recover"]
                    /\ UNCHANGED <<heap, newConfig>>
               ELSE /\ pc' = [pc EXCEPT ![p] = "derive"]
                    /\ heap' = [b \in DOMAIN heap \cup {a} |-> IF b = a THEN lit.cfg ELSE heap[b]]
                    /\ newConfig' = [newConfig EXCEPT ![p] = a]
    /\ UNCHANGED <<config, lock, settingsWarning, ResolverPublic, ResolverOpennic>>
    /\ UNCHANGED <<hostVars, downloadPath, libraryPath, message, returned, started, ticker>>
    /\ UNCHANGED <<getVars, burstVars, histVars, alone>>

\* The storage override, the memory size, the Trakt and OSDB defaults, the
\* proxy URL, the DNS resolvers and the connection limit, all on newConfig.
\* An out-of-range proxy type panics into the deferred function.
ReloadDerive(p) ==
    /\ ~exited
    /\ pc[p] = "derive"
    /\ \E totalMemory \in TotalMemoryInputs :
           LET a == newConfig[p]
               d == DeriveConfiguration(heap[a], totalMemory, ResolverPublic, ResolverOpennic)
           IN  /\ heap' = [heap EXCEPT ![a] = d.cfg]
               /\ ResolverPublic' = d.public
               /\ ResolverOpennic' = d.opennic
               /\ pc' = [pc EXCEPT ![p] = IF d.panic THEN "recover" ELSE "lock"]
               /\ dnsApplied' =
                      IF d.panic THEN dnsApplied
                      ELSE Append(dnsApplied, [public |-> heap[a].PublicDNSList,
                                               opennic |-> heap[a].OpennicDNSList])
    /\ UNCHANGED <<config, lock, settingsWarning>>
    /\ UNCHANGED <<hostVars, downloadPath, libraryPath, newConfig, message, returned, started, ticker>>
    /\ UNCHANGED <<getVars, burstVars, alone>>
    /\ UNCHANGED <<published, snapshot, getFrom, before, warned>>

\* lock.Lock()
ReloadLock(p) ==
    /\ ~exited
    /\ pc[p] = "lock"
    /\ ~lock.writer /\ lock.readers = 0
    /\ lock' = [lock EXCEPT !.writer = TRUE]
    /\ pc' = [pc EXCEPT ![p] = "store"]
    /\ UNCHANGED <<heap, config, settingsWarning, ResolverPublic, ResolverOpennic>>
    /\ UNCHANGED <<hostVars, downloadPath, libraryPath, newConfig, message, returned, started, ticker>>
    /\ UNCHANGED <<getVars, burstVars, histVars, alone>>

\* config = &newConfig; lock.Unlock()
ReloadStore(p) ==
    /\ ~exited
    /\ pc[p] = "store"
    /\ config' = newConfig[p]
    /\ lock' = [lock EXCEPT !.writer = FALSE]
    /\ published' = Append(published, newConfig[p])
    /\ snapshot' = [b \in DOMAIN snapshot \cup {newConfig[p]} |->
                       IF b = newConfig[p] THEN heap[newConfig[p]] ELSE snapshot[b]]
    /\ pc' = [pc EXCEPT ![p] = "return"]
    /\ UNCHANGED <<heap, settingsWarning, ResolverPublic, ResolverOpennic>>
    /\ UNCHANGED <<hostVars, downloadPath, libraryPath, newConfig, message, returned, started, ticker>>
    /\ UNCHANGED <<getVars, burstVars, alone>>
    /\ UNCHANGED <<getFrom, before, warned, dnsApplied>>

\* go CheckBurst(); log; return config -- a CheckBurst goroutine starts,
\* and config is read again, without the lock.
ReloadReturn(p) ==
    /\ ~exited
    /\ pc[p] = "return"
    /\ bpc' = [bpc EXCEPT ![newConfig[p]] = "scan"]
    /\ returned' = [returned EXCEPT ![p] = config]
    /\ pc' = [pc EXCEPT ![p] = "idle"]
    /\ UNCHANGED <<pkgVars, hostVars, downloadPath, libraryPath, newConfig, message, started, ticker>>
    /\ UNCHANGED <<getVars, enabledProviders, burstCalls, providerAt, icon, histVars, alone>>

\* ------------------------------------------------------------------------
\* The deferred function of Reload: recover(), the settings window, the
\* dialog, waitForSettingsClosed(), os.Exit(5)
\* ------------------------------------------------------------------------

\* message := "LOCALIZE[30314]"; if settingsWarning != "" { message = settingsWarning }
SelectMessage(warning) == IF warning # NoWarning THEN warning ELSE Localize30314

\* settingsWarning is read here without synchronisation, and no lock
\* orders the read with the writes of the other Reload goroutines.  When
\* another goroutine has written a text that is not this goroutine's own,
\* or may still write one, the read sees the old text or the new text
\* (both by interleaving) or a header made of parts of both.
WarningWriteRacing(p) ==
    \E q \in Reloaders \ {p} :
        \/ warned[q] \notin {NoWarning, warned[p]}
        \/ pc[q] \in {"download", "library"}
        \/ pc[q] = "idle" /\ q \in Callers /\ started < MaxCalls
SelectOutcomes(p) ==
    {SelectMessage(settingsWarning)}
        \cup (IF WarningWriteRacing(p) THEN {TornWarning} ELSE {})

RecoverSelect(p) ==
    /\ ~exited
    /\ pc[p] = "recover"
    /\ \E m \in SelectOutcomes(p) : message' = [message EXCEPT ![p] = m]
    /\ pc' = [pc EXCEPT ![p] = "opensettings"]
    /\ UNCHANGED <<pkgVars, hostVars, downloadPath, libraryPath, newConfig, returned, started, ticker>>
    /\ UNCHANGED <<getVars, burstVars, histVars, alone>>

\* xbmc.AddonSettings("plugin.video.elementum"): the host opens the
\* settings window.
RecoverOpenSettings(p) ==
    /\ ~exited
    /\ pc[p] = "opensettings"
    /\ hostCalls' = [hostCalls EXCEPT ![p] = Append(@, [call |-> "AddonSettings", message |-> NoWarning])]
    /\ settingsOpened' = TRUE
    /\ pc' = [pc EXCEPT ![p] = "dialog"]
    /\ UNCHANGED <<pkgVars, fs, exited, exitStatus, addons>>
    /\ UNCHANGED <<downloadPath, libraryPath, newConfig, message, returned, started, ticker>>
    /\ UNCHANGED <<getVars, burstVars, histVars, alone>>

\* The period of the ticker: time.NewTicker(3 * time.Second), in seconds.
TickerPeriod == 3

\* A ticker: the seconds since it was created or last fired, and whether
\* its channel ticker.C holds a tick.  NoTicker: none is running.
NoTicker == [phase |-> 0, pending |-> FALSE]
NewTicker == [phase |-> 0, pending |-> FALSE]

\* One more second for a running ticker: when the period has passed it
\* sends on ticker.C, which holds one tick (a second one is dropped).
Advance(t) ==
    IF t.phase + 1 = TickerPeriod
    THEN [phase |-> 0, pending |-> TRUE]
    ELSE [t EXCEPT !.phase = @ + 1]

\* xbmc.Dialog("Elementum", message); waitForSettingsClosed() creates
\* its ticker.
RecoverDialog(p) ==
    /\ ~exited
    /\ pc[p] = "dialog"
    /\ hostCalls' = [hostCalls EXCEPT ![p] = Append(@, [call |-> "Dialog", message |-> message[p]])]
    /\ pc' = [pc EXCEPT ![p] = "wait"]
    /\ ticker' = [ticker EXCEPT ![p] = NewTicker]
    /\ UNCHANGED <<pkgVars, fs, settingsOpened, exited, exitStatus, addons>>
    /\ UNCHANGED <<downloadPath, libraryPath, newConfig, message, returned, started>>
    /\ UNCHANGED <<getVars, burstVars, histVars, alone>>

\* Where a call is inside waitForSettingsClosed: blocked on ticker.C, or
\* waiting for the host's answer to xbmc.AddonSettingsOpened().
TickerRuns == {"wait", "poll"}

\* One second passes for the tickers of the calls in waitForSettingsClosed.
PassSecond ==
    /\ ~exited
    /\ \E p \in Reloaders : pc[p] \in TickerRuns
    /\ ticker' = [p \in Reloaders |-> IF pc[p] \in TickerRuns THEN Advance(ticker[p]) ELSE ticker[p]]
    /\ UNCHANGED <<pkgVars, hostVars, getVars, burstVars, histVars, alone>>
    /\ UNCHANGED <<pc, downloadPath, libraryPath, newConfig, message, returned, started>>

\* case <-ticker.C: the tick is received, which empties the channel.
WaitTick(p) ==
    /\ ~exited
    /\ pc[p] = "wait"
    /\ ticker[p].pending
    /\ pc' = [pc EXCEPT ![p] = "poll"]
    /\ ticker' = [ticker EXCEPT ![p] = [@ EXCEPT !.pending = FALSE]]
    /\ UNCHANGED <<pkgVars, hostVars, downloadPath, libraryPath, newConfig, message, returned, started>>
    /\ UNCHANGED <<getVars, burstVars, histVars, alone>>

\* What the host's answer to xbmc.AddonSettingsOpened() decides: return,
\* or the next turn of the loop.
AfterTickNoPoll(opened) == "exit"
AfterTick(opened) == IF ~opened THEN "exit" ELSE "wait"

\* if !xbmc.AddonSettingsOpened() { return }: the host answers; on the
\* return the deferred ticker.Stop() runs.
WaitPoll(p) ==
    /\ ~exited
    /\ pc[p] = "poll"
    /\ pc' = [pc EXCEPT ![p] = AfterTick(settingsOpened)]
    /\ ticker' = [ticker EXCEPT ![p] =
           IF AfterTick(settingsOpened) = "wait" THEN @ ELSE NoTicker]
    /\ UNCHANGED <<pkgVars, hostVars, downloadPath, libraryPath, newConfig, message, returned, started>>
    /\ UNCHANGED <<getVars, burstVars, histVars, alone>>

\* os.Exit(5): the whole process ends.
RecoverExit(p) ==
    /\ ~exited
    /\ pc[p] = "exit"
    /\ exited' = TRUE
    /\ exitStatus' = 5
    /\ pc' = [pc EXCEPT ![p] = "exited"]
    /\ UNCHANGED <<pkgVars, fs, settingsOpened, hostCalls, addons>>
    /\ UNCHANGED <<downloadPath, libraryPath, newConfig, message, returned, started, ticker>>
    /\ UNCHANGED <<getVars, burstVars, histVars, alone>>

\* The user closes the settings window.
UserClosesSettings ==
    /\ ~exited
    /\ settingsOpened
    /\ settingsOpened' = FALSE
    /\ UNCHANGED <<pkgVars, fs, hostCalls, exited, exitStatus, addons>>
    /\ UNCHANGED <<reloadVars, getVars, burstVars, histVars, alone>>

\* ------------------------------------------------------------------------
\* CheckBurst, on the goroutine a Reload call started
\* ------------------------------------------------------------------------

\* The IDs of the listed add-ons that begin with "script.elementum.", in
\* the order of the list, enabled or not.
ElementumAddons(list) ==
    LET own == SelectSeq(list, LAMBDA a : HasPrefix(a.ID, ElementumPrefix))
    IN  [i \in 1..Len(own) |-> own[i].ID]

\* hasBurst after the first loop: one of them is enabled.
HasEnabledProvider(list) ==
    \E i \in 1..Len(list) : HasPrefix(list[i].ID, ElementumPrefix) /\ list[i].Enabled

\* hasBurst after the second loop: script.elementum.burst is enabled.
HasBurst(list) == \E i \in 1..Len(list) : list[i].ID = AddonBurst /\ list[i].Enabled

\* The host's list once it has installed and enabled Burst.
WithBurst(list) ==
    IF \E i \in 1..Len(list) : list[i].ID = AddonBurst
    THEN [i \in 1..Len(list) |->
             IF list[i].ID = AddonBurst THEN [list[i] EXCEPT !.Enabled = TRUE] ELSE list[i]]
    ELSE Append(list, [ID |-> AddonBurst, Enabled |-> TRUE])

\* The host's list after xbmc.SetAddonEnabled(id, false) for each id.
Disabled(list, ids) ==
    [i \in 1..Len(list) |->
        IF \E j \in 1..Len(ids) : ids[j] = list[i].ID
        THEN [list[i] EXCEPT !.Enabled = FALSE] ELSE list[i]]

HostCall(call, text, subject) == [call |-> call, message |-> [code |-> text, path |-> subject]]

\* The host has been asked to play the URL of Burst's plugin.
PlayURLSent ==
    \E b \in Bursts : \E i \in 1..Len(burstCalls[b]) : burstCalls[b][i].call = "PlayURL"

\* The first loop over xbmc.GetAddons.
BurstScan(b) ==
    /\ ~exited
    /\ bpc[b] = "scan"
    /\ enabledProviders' = [enabledProviders EXCEPT ![b] = ElementumAddons(addons)]
    /\ bpc' = [bpc EXCEPT ![b] = IF HasEnabledProvider(addons) THEN "done" ELSE "updatelocal"]
    /\ UNCHANGED <<pkgVars, hostVars, reloadVars, getVars, histVars, alone>>
    /\ UNCHANGED <<burstCalls, providerAt, icon>>

\* xbmc.UpdateLocalAddons()
BurstUpdateLocalAddons(b) ==
    /\ ~exited
    /\ bpc[b] = "updatelocal"
    /\ burstCalls' = [burstCalls EXCEPT ![b] = Append(@, HostCall("UpdateLocalAddons", "", Empty))]
    /\ bpc' = [bpc EXCEPT ![b] = "updaterepos"]
    /\ UNCHANGED <<pkgVars, hostVars, reloadVars, getVars, histVars, alone>>
    /\ UNCHANGED <<enabledProviders, providerAt, icon>>

\* xbmc.UpdateAddonRepos() and the sleep.
BurstUpdateAddonRepos(b) ==
    /\ ~exited
    /\ bpc[b] = "updaterepos"
    /\ burstCalls' = [burstCalls EXCEPT ![b] = Append(@, HostCall("UpdateAddonRepos", "", Empty))]
    /\ bpc' = [bpc EXCEPT ![b] = "confirm"]
    /\ UNCHANGED <<pkgVars, hostVars, reloadVars, getVars, histVars, alone>>
    /\ UNCHANGED <<enabledProviders, providerAt, icon>>

\* xbmc.DialogConfirm("Elementum", "LOCALIZE[30271]"): the user's answer.
BurstConfirm(b) ==
    /\ ~exited
    /\ bpc[b] = "confirm"
    /\ burstCalls' = [burstCalls EXCEPT ![b] =
           Append(@, HostCall("DialogConfirm", "LOCALIZE[30271]", Empty))]
    /\ \E yes \in BOOLEAN : bpc' = [bpc EXCEPT ![b] = IF yes THEN "playurl" ELSE "done"]
    /\ UNCHANGED <<pkgVars, hostVars, reloadVars, getVars, histVars, alone>>
    /\ UNCHANGED <<enabledProviders, providerAt, icon>>

\* xbmc.PlayURL("plugin://script.elementum.burst/") and the sleep.
BurstPlayURL(b) ==
    /\ ~exited
    /\ bpc[b] = "playurl"
    /\ burstCalls' = [burstCalls EXCEPT ![b] = Append(@, HostCall("PlayURL", "", AddonBurst))]
    /\ bpc' = [bpc EXCEPT ![b] = "rescan"]
    /\ UNCHANGED <<pkgVars, hostVars, reloadVars, getVars, histVars, alone>>
    /\ UNCHANGED <<enabledProviders, providerAt, icon>>

\* The host, asked to play that URL, installs and enables Burst: before
\* the second loop reads the list, after it, or never.
HostInstallsBurst ==
    /\ ~exited
    /\ PlayURLSent
    /\ ~HasBurst(addons)
    /\ addons' = WithBurst(addons)
    /\ UNCHANGED <<pkgVars, fs, settingsOpened, hostCalls, exited, exitStatus>>
    /\ UNCHANGED <<reloadVars, getVars, burstVars, histVars, alone>>

\* The second loop over xbmc.GetAddons, and the branch on hasBurst.
BurstRescan(b) ==
    /\ ~exited
    /\ bpc[b] = "rescan"
    /\ bpc' = [bpc EXCEPT ![b] = IF HasBurst(addons) THEN "disable" ELSE "dialog"]
    /\ providerAt' = [providerAt EXCEPT ![b] = 1]
    /\ UNCHANGED <<pkgVars, hostVars, reloadVars, getVars, histVars, alone>>
    /\ UNCHANGED <<enabledProviders, burstCalls, icon>>

\* One turn of the loop over enabledProviders:
\* xbmc.SetAddonEnabled(addon.ID, false); after the last one, AddonIcon()
\* calls Get(), which takes the read lock.
BurstDisable(b) ==
    /\ ~exited
    /\ bpc[b] = "disable"
    /\ providerAt[b] <= Len(enabledProviders[b])
    /\ addons' = Disabled(addons, <<enabledProviders[b][providerAt[b]]>>)
    /\ burstCalls' = [burstCalls EXCEPT ![b] =
           Append(@, HostCall("SetAddonEnabled", "false", enabledProviders[b][providerAt[b]]))]
    /\ providerAt' = [providerAt EXCEPT ![b] = @ + 1]
    /\ UNCHANGED <<pkgVars, fs, settingsOpened, hostCalls, exited, exitStatus>>
    /\ UNCHANGED <<reloadVars, getVars, bpc, enabledProviders, icon, histVars, alone>>

\* xbmc.Dialog("Elementum", "LOCALIZE[30273]")
BurstDialog(b) ==
    /\ ~exited
    /\ bpc[b] = "dialog"
    /\ burstCalls' = [burstCalls EXCEPT ![b] =
           Append(@, HostCall("Dialog", "LOCALIZE[30273]", Empty))]
    /\ bpc' = [bpc EXCEPT ![b] = "done"]
    /\ UNCHANGED <<pkgVars, hostVars, reloadVars, getVars, histVars, alone>>
    /\ UNCHANGED <<enabledProviders, providerAt, icon>>

\* AddonIcon(): Get() takes the read lock, once the loop over
\* enabledProviders has ended.
BurstIconRLock(b) ==
    /\ ~exited
    /\ bpc[b] = "disable"
    /\ providerAt[b] > Len(enabledProviders[b])
    /\ ~lock.writer
    /\ lock' = [lock EXCEPT !.readers = @ + 1]
    /\ bpc' = [bpc EXCEPT ![b] = "icon"]
    /\ UNCHANGED <<heap, config, settingsWarning, ResolverPublic, ResolverOpennic>>
    /\ UNCHANGED <<hostVars, reloadVars, getVars, histVars, alone>>
    /\ UNCHANGED <<enabledProviders, burstCalls, providerAt, icon>>

\* AddonIcon(): filepath.Join(Get().Info.Path, "icon.png")
AddonIcon(c) == Join(c.InfoPath, IconName)

\* Get() returns config and releases the read lock; AddonIcon() returns
\* the path of the icon.
BurstIconReturn(b) ==
    /\ ~exited
    /\ bpc[b] = "icon"
    /\ lock' = [lock EXCEPT !.readers = @ - 1]
    /\ icon' = [icon EXCEPT ![b] = AddonIcon(heap[config])]
    /\ bpc' = [bpc EXCEPT ![b] = "notify"]
    /\ UNCHANGED <<heap, config, settingsWarning, ResolverPublic, ResolverOpennic>>
    /\ UNCHANGED <<hostVars, reloadVars, getVars, histVars, alone>>
    /\ UNCHANGED <<enabledProviders, burstCalls, providerAt>>

\* xbmc.Notify("Elementum", "LOCALIZE[30272]", AddonIcon())
BurstNotify(b) ==
    /\ ~exited
    /\ bpc[b] = "notify"
    /\ burstCalls' = [burstCalls EXCEPT ![b] =
           Append(@, HostCall("Notify", "LOCALIZE[30272]", icon[b]))]
    /\ bpc' = [bpc EXCEPT ![b] = "done"]
    /\ UNCHANGED <<pkgVars, hostVars, reloadVars, getVars, histVars, alone>>
    /\ UNCHANGED <<enabledProviders, providerAt, icon>>

\* ------------------------------------------------------------------------
\* Get
\* ------------------------------------------------------------------------

\* lock.RLock()
GetRLock(g) ==
    /\ ~exited
    /\ gpc[g] = "idle"
    /\ ~lock.writer
    /\ lock' = [lock EXCEPT !.readers = @ + 1]
    /\ gpc' = [gpc EXCEPT ![g] = "locked"]
    /\ getFrom' = [getFrom EXCEPT ![g] = Len(published)]
    /\ got' = [got EXCEPT ![g] = NoAddr]
    /\ UNCHANGED <<heap, config, settingsWarning, ResolverPublic, ResolverOpennic>>
    /\ UNCHANGED <<hostVars, reloadVars, burstVars, alone>>
    /\ UNCHANGED <<published, snapshot, before, warned, dnsApplied>>

\* return config; defer lock.RUnlock()
GetReturnCached(g) ==
    /\ ~exited
    /\ gpc[g] = "locked"
    /\ got' = [got EXCEPT ![g] = 0]
    /\ lock' = [lock EXCEPT !.readers = @ - 1]
    /\ gpc' = [gpc EXCEPT ![g] = "idle"]
    /\ UNCHANGED <<heap, config, settingsWarning, ResolverPublic, ResolverOpennic>>
    /\ UNCHANGED <<hostVars, reloadVars, burstVars, histVars, alone>>
GetReturn(g) ==
    /\ ~exited
    /\ gpc[g] = "locked"
    /\ got' = [got EXCEPT ![g] = config]
    /\ lock' = [lock EXCEPT !.readers = @ - 1]
    /\ gpc' = [gpc EXCEPT ![g] = "idle"]
    /\ UNCHANGED <<heap, config, settingsWarning, ResolverPublic, ResolverOpennic>>
    /\ UNCHANGED <<hostVars, reloadVars, burstVars, histVars, alone>>

\* ------------------------------------------------------------------------
\* The program
\* ------------------------------------------------------------------------

ProgramInit ==
    /\ heap = (0 :> ZeroConfiguration)
    /\ config = 0
    /\ lock = [writer |-> FALSE, readers |-> 0]
    /\ settingsWarning = NoWarning
    /\ ResolverPublic = DefaultResolverPublic
    /\ ResolverOpennic = DefaultResolverOpennic
    /\ settingsOpened = FALSE
    /\ hostCalls = [p \in Reloaders |-> <<>>]
    /\ exited = FALSE
    /\ exitStatus = 0
    /\ addons = InitialAddons
    /\ pc = [p \in Reloaders |-> "idle"]
    /\ downloadPath = [p \in Reloaders |-> Empty]
    /\ libraryPath = [p \in Reloaders |-> Empty]
    /\ newConfig = [p \in Reloaders |-> NoAddr]
    /\ message = [p \in Reloaders |-> NoWarning]
    /\ returned = [p \in Reloaders |-> NoAddr]
    /\ gpc = [g \in Getters |-> "idle"]
    /\ got = [g \in Getters |-> NoAddr]
    /\ started = 0
    /\ ticker = [p \in Reloaders |-> NoTicker]
    /\ bpc = [b \in Bursts |-> "none"]
    /\ enabledProviders = [b \in Bursts |-> <<>>]
    /\ burstCalls = [b \in Bursts |-> <<>>]
    /\ providerAt = [b \in Bursts |-> 1]
    /\ icon = [b \in Bursts |-> Empty]
    /\ published = <<>>
    /\ snapshot = (0 :> ZeroConfiguration)
    /\ getFrom = [g \in Getters |-> 0]
    /\ before = [p \in Reloaders |-> [config |-> 0, stores |-> 0]]
    /\ warned = [p \in Reloaders |-> NoWarning]
    /\ dnsApplied = <<>>

Init ==
    /\ ProgramInit
    /\ fs = InitialFs
    /\ arg = ProgramRun
    /\ res = <<>>

Next ==
    \/ \E p \in Reloaders :
           \/ ReloadStart(p)
           \/ ReloadDownloadPath(p)
           \/ ReloadLibraryPath(p)
           \/ ReloadConstruct(p)
           \/ ReloadDerive(p)
           \/ ReloadLock(p)
           \/ ReloadStore(p)
           \/ ReloadReturn(p)
           \/ RecoverSelect(p)
           \/ RecoverOpenSettings(p)
           \/ RecoverDialog(p)
           \/ WaitTick(p)
           \/ WaitPoll(p)
           \/ RecoverExit(p)
    \/ UserClosesSettings
    \/ \E b \in Bursts :
           \/ BurstScan(b)
           \/ BurstUpdateLocalAddons(b)
           \/ BurstUpdateAddonRepos(b)
           \/ BurstConfirm(b)
           \/ BurstPlayURL(b)
           \/ BurstRescan(b)
           \/ BurstDisable(b)
           \/ BurstDialog(b)
           \/ BurstIconRLock(b)
           \/ BurstIconReturn(b)
           \/ BurstNotify(b)
    \/ HostInstallsBurst
    \/ PassSecond
    \/ \E g \in Getters : GetRLock(g) \/ GetReturn(g)

Spec == Init /\ [][Next]_vars

\* The Reload calls and what they start, without the Get goroutines.
NextCall ==
    \/ \E p \in Reloaders :
           \/ ReloadStart(p)
           \/ ReloadDownloadPath(p)
           \/ ReloadLibraryPath(p)
           \/ ReloadConstruct(p)
           \/ ReloadDerive(p)
           \/ ReloadLock(p)
           \/ ReloadStore(p)
           \/ ReloadReturn(p)
           \/ RecoverSelect(p)
           \/ RecoverOpenSettings(p)
           \/ RecoverDialog(p)
           \/ WaitTick(p)
           \/ WaitPoll(p)
           \/ RecoverExit(p)
    \/ UserClosesSettings
    \/ \E b \in Bursts :
           \/ BurstScan(b)
           \/ BurstUpdateLocalAddons(b)
           \/ BurstUpdateAddonRepos(b)
           \/ BurstConfirm(b)
           \/ BurstPlayURL(b)
           \/ BurstRescan(b)
           \/ BurstDisable(b)
           \/ BurstDialog(b)
           \/ BurstIconRLock(b)
           \/ BurstIconReturn(b)
           \/ BurstNotify(b)
    \/ HostInstallsBurst
    \/ PassSecond

\* The abort path under fair scheduling: the Reload calls, the CheckBurst
\* goroutines they start, the host, the user and the clock.  The Get
\* goroutines are left out: a Get call changes lock's reader count and its
\* own result only, and the deferred function of Reload reads neither.
\* The goroutine that runs the deferred function is scheduled, and time
\* passes.
FairSpec ==
    /\ Init
    /\ [][NextCall]_vars
    /\ WF_vars(PassSecond)
    /\ \A p \in Reloaders :
           /\ WF_vars(RecoverSelect(p))
           /\ WF_vars(RecoverOpenSettings(p))
           /\ WF_vars(RecoverDialog(p))
           /\ WF_vars(WaitTick(p))
           /\ WF_vars(WaitPoll(p))
           /\ WF_vars(RecoverExit(p))

\* ------------------------------------------------------------------------
\* Properties of Get and Reload running together
\* ------------------------------------------------------------------------

Range(seq) == {seq[i] : i \in 1..Len(seq)}

\* The pointer config held after n stores.
PublishedAt(n) == IF n = 0 THEN 0 ELSE published[n]

\* All the rules Reload applies between the literal and the swap have been
\* applied to c.
Derived(c) ==
    /\ c.ConnectionsLimit # 0
    /\ \A i \in 1..Len(c.PublicDNSList) : c.PublicDNSList[i] # " "
    /\ \A i \in 1..Len(c.OpennicDNSList) : c.OpennicDNSList[i] # " "
    /\ (c.ProxyEnabled /\ c.ProxyHost # Empty) <=> (c.ProxyURL # Empty)
    /\ c.DownloadStorage = 1 =>
           /\ ~c.CompletedMove
           /\ c.KeepDownloading = 2 /\ c.KeepFilesFinished = 2 /\ c.KeepFilesPlaying = 2
           /\ c.AutoMemorySize => c.MemorySize <= maxMemorySize
    /\ c.TraktToken # Empty => c.TraktSyncFrequency # 0
    /\ c.OSDBAutoLanguage => c.OSDBLanguage = c.Language
    /\ c.TorrentsPath = c.DownloadPath \o <<"/">> \o TorrentsName

\* C1: whatever the interleaving of Get calls with Reload calls, the
\* pointer a Get call returns is the one config held when the call took
\* the read lock: the initial value or the value some Reload stored, whole
\* (the value it points to is field for field what was stored, with every
\* derived field), and never one stored before the latest swap that was
\* complete when the Get took the lock.
C1_GetSeesOneSnapshot ==
    \A g \in Getters :
        (gpc[g] = "idle" /\ got[g] # NoAddr) =>
            /\ got[g] = PublishedAt(getFrom[g])
            /\ got[g] \in DOMAIN heap
            /\ heap[got[g]] = snapshot[got[g]]
            /\ got[g] # 0 => Derived(heap[got[g]])

\* A Get returned the value of the first Reload while a second Reload,
\* which has built its own value, is about to swap; and a Get returned
\* the initial value while a Reload was already deriving.
C1_Witness ==
    \E g \in Getters, p \in Reloaders :
        /\ gpc[g] = "idle"
        /\ got[g] # NoAddr /\ got[g] # 0
        /\ pc[p] \in {"lock", "store"}
        /\ newConfig[p] # got[g]
        /\ heap[newConfig[p]] # heap[got[g]]



\* ------------------------------------------------------------------------
\* Properties of the abort path
\* ------------------------------------------------------------------------

\* Where the deferred function is once it has selected its message.
AbortStages == {"opensettings", "dialog", "wait", "poll", "exit", "exited"}
Aborting(p) == pc[p] = "recover" \/ pc[p] \in AbortStages

CallAddonSettings == [call |-> "AddonSettings", message |-> NoWarning]
CallDialog(m) == [call |-> "Dialog", message |-> m]

\* The warnings recorded by the path validations of the other goroutines.
OtherWarnings(p) == {warned[q] : q \in Reloaders \ {p}} \ {NoWarning}

\* The calls the statement about the message covers: no other Reload has
\* recorded a warning, and the read of settingsWarning did not race with a
\* write.
C3_Covered(p) == message[p] # TornWarning /\ OtherWarnings(p) = {}

\* The message the deferred function of p selected.
C3_Message(p) ==
    C3_Covered(p) =>
        message[p] = (IF warned[p] # NoWarning THEN warned[p] ELSE Localize30314)

\* The warning a failed path validation records.
C3_Warning(p) ==
    warned[p] # NoWarning =>
        IF downloadPath[p] = Dot THEN warned[p] = Localize30113
        ELSE /\ warned[p].code \in {"Network paths are not supported",
                    "is not a valid directory", "no such file or directory",
                    "not a directory", "permission denied", "is a directory"}
             /\ warned[p].path # Empty

C3_State ==
    /\ \A p \in Reloaders :
           /\ Aborting(p) => C3_Warning(p)
           /\ pc[p] \in AbortStages => C3_Message(p)
           /\ hostCalls[p] =
                  IF pc[p] \in {"wait", "poll", "exit", "exited"}
                  THEN <<CallAddonSettings, CallDialog(message[p])>>
                  ELSE IF pc[p] = "dialog" THEN <<CallAddonSettings>>
                  ELSE <<>>
           /\ Aborting(p) => newConfig[p] \notin Range(published)
           /\ (Aborting(p) /\ Len(published) = before[p].stores) => config = before[p].config
    /\ exited <=> \E p \in Reloaders : pc[p] = "exited"
    /\ exitStatus = (IF exited THEN 5 ELSE 0)

\* A step of p that receives a tick from ticker.C.
Receives(p) == pc[p] = "wait" /\ pc'[p] = "poll"

\* A step of p in which the host answers the poll.
Polls(p) == pc[p] = "poll" /\ pc'[p] # "poll"

C3_Step ==
    /\ \A p \in Reloaders :
           /\ (pc'[p] = "exit" /\ pc[p] # "exit") => (Polls(p) /\ ~settingsOpened)
           /\ (pc'[p] = "exited" /\ pc[p] # "exited") => pc[p] = "exit"
           /\ (Polls(p) /\ settingsOpened) => pc'[p] = "wait"
           /\ (pc'[p] = "poll" /\ pc[p] # "poll") => (Receives(p) /\ ticker[p].pending)
           /\ (ticker[p].pending /\ ~ticker'[p].pending) => (Receives(p) \/ pc'[p] = "exit")
           /\ (ticker'[p].pending /\ ~ticker[p].pending) =>
                  (pc[p] \in TickerRuns /\ ticker[p].phase = TickerPeriod - 1 /\ ticker'[p].phase = 0)
           /\ (pc[p] \in TickerRuns /\ pc'[p] \in TickerRuns /\ ticker'[p].phase # ticker[p].phase) =>
                  ticker'[p].phase = (ticker[p].phase + 1) % TickerPeriod
           /\ Aborting(p) => Aborting(p)'
    /\ config' # config => \E q \in Reloaders : pc[q] = "store" /\ config' = newConfig[q]

RECURSIVE StripWhitespace(_)
StripWhitespace(s) ==
    IF s = Empty THEN Empty
    ELSE IF s[1] \in {" ", "\t", "\n", "\r"} THEN StripWhitespace(Tail(s))
    ELSE <<s[1]>> \o StripWhitespace(Tail(s))

\* The registry the claim describes after the settings lists, in order.
RECURSIVE ClaimedRegistry(_, _)
ClaimedRegistry(initial, lists) ==
    IF lists = <<>> THEN initial
    ELSE LET last == StripWhitespace(lists[Len(lists)])
         IN  IF last # Empty THEN SplitComma(last)
             ELSE ClaimedRegistry(initial, SubSeq(lists, 1, Len(lists) - 1))

NoWhitespace(registry) ==
    \A i \in 1..Len(registry) : \A j \in 1..Len(registry[i]) :
        registry[i][j] \notin {" ", "\t", "\n", "\r"}

\* C7: each registry holds the list of the most recent Reload whose
\* setting was non-empty once all white space was stripped, split on
\* commas, no address containing white space; the built-in list when there
\* was none.
C7_ResolversAsClaimed ==
    /\ ResolverPublic =
           ClaimedRegistry(DefaultResolverPublic,
                           [i \in 1..Len(dnsApplied) |-> dnsApplied[i].public])
    /\ ResolverOpennic =
           ClaimedRegistry(DefaultResolverOpennic,
                           [i \in 1..Len(dnsApplied) |-> dnsApplied[i].opennic])
    /\ NoWhitespace(ResolverPublic)
    /\ NoWhitespace(ResolverOpennic)

\* C10: a published Configuration is never changed: the initial value and
\* every value a Reload stored are, whatever Reload calls succeeded or
\* aborted since, field for field what they were when stored; each stored
\* value had all its derived fields at the swap; every swap stored a
\* pointer that was never published before, and config is the latest one.
\* Every pointer Get or Reload returned is one of them.
C10_PublishedNeverMutated ==
    /\ heap[0] = ZeroConfiguration
    /\ \A i \in 1..Len(published) :
           LET a == published[i] IN
           /\ a \in DOMAIN heap /\ a # 0
           /\ heap[a] = snapshot[a]
           /\ Derived(snapshot[a])
           /\ \A j \in 1..(i - 1) : published[j] # a
    /\ config = PublishedAt(Len(published))
    /\ \A g \in Getters : got[g] # NoAddr => got[g] \in {0} \cup Range(published)
    /\ \A p \in Reloaders : returned[p] # NoAddr => returned[p] \in Range(published)

\* Two Reloads have published different values; a Get holds the first one
\* and the Reload that stored the second one has returned.
C10_Witness ==
    /\ Len(published) = 2
    /\ config = published[2]
    /\ heap[published[1]] # heap[published[2]]
    /\ \E g \in Getters : got[g] = published[1]
    /\ \E p \in Reloaders : returned[p] = published[2]

\* C11: the pointer a successful Reload call returns is the value this
\* very call built and stored into config, whatever the interleaving, also
\* when another Reload call stores its own value between this call's swap
\* and this call's return.  (Reload returns the package variable config,
\* read again after lock.Unlock(), not &newConfig: the call whose return
\* follows another call's swap returns the other call's value.)
C11_ReturnsOwnSnapshotAsClaimed ==
    \A p \in Reloaders :
        (pc[p] = "idle" /\ returned[p] # NoAddr) =>
            /\ newConfig[p] \in Range(published)
            /\ returned[p] = newConfig[p]


\* ------------------------------------------------------------------------
\* One Reload call on one settings list and one memory reading (the
\* platform is there and both paths are /w, which passes validation)
\* ------------------------------------------------------------------------

InitDerive ==
    /\ ProgramInit
    /\ fs = InitialFs
    /\ arg \in DeriveInputs
    /\ res = <<>>

SpecDerive == InitDerive /\ [][NextCall]_vars

\* The goroutine of the single call, how the call ended and the value it
\* stored into config.
Caller == "r1"
CallStage ==
    IF pc[Caller] \in AbortStages THEN "abort"
    ELSE IF newConfig[Caller] \in Range(published) THEN "publish"
    ELSE "running"
CallValue == heap[newConfig[Caller]]

\* The proxy is switched on with a type that is no index of proxyTypes.
ProxyTypeOutOfRange(a) == a.enabled /\ a.host # Empty /\ a.type \notin 0..3

\* C2 (as amended): with a platform descriptor from the host, once both
\* paths have passed validation, Reload enters
\* the abort path exactly when a key the literal reads is missing from the
\* settings, or is declared with a kind whose coerced value has another
\* type than the literal asserts, or the proxy is enabled with a host and a
\* proxy_type outside 0..3; the message is then LOCALIZE[30314].  Only a
\* text that does not parse, or a float slider that is not positive,
\* degrades to 0, and Reload goes on to the swap.
C2_AbortsOnFailedAssertion ==
    CallStage \in {"abort", "publish"} =>
        /\ (CallStage = "abort") <=>
               (arg.anomaly.tag \in {"missing", "kind"} \/ ProxyTypeOutOfRange(arg))
        /\ CallStage = "abort" => message[Caller] = Localize30314
        /\ arg.anomaly.tag = "value" =>
               (CallStage = "publish" /\ CallValue[arg.anomaly.field] = 0)

\* A float slider read as an integer has sent Reload into the abort path.
C2_Witness ==
    /\ CallStage = "abort"
    /\ arg.anomaly.tag = "kind"
    /\ arg.anomaly.entry.Type = "slider"
    /\ message[Caller] = Localize30314

\* C2 as stated: with both paths valid, no settings list sends Reload into
\* the abort path.
C2_OnlyPathErrorsAbort == CallStage # "abort"

Min(a, b) == IF a < b THEN a ELSE b

\* The memory size of an input, written from the order of the code's
\* operations: the hundredth of the total memory (rounded down) times the
\* percentage; the configured size when that is 0; at most 200 MiB.
ExpectedMemorySize(a) ==
    IF a.storage = 1 /\ a.auto
    THEN IF a.strategy = 0 THEN 41943040
         ELSE LET share == (a.total \div 100) * (5 + 5 * (a.strategy - 1))
              IN  Min(IF share > 0 THEN share ELSE a.memory * 1048576, 209715200)
    ELSE a.memory * 1048576

\* The memory size as claimed: the total memory times the percentage,
\* divided by 100 (computed without the intermediate product), at most
\* 200 MiB.
ClaimedMemorySize(a) ==
    IF a.storage = 1 /\ a.auto
    THEN IF a.strategy = 0 THEN 41943040
         ELSE LET pct == 5 + 5 * (a.strategy - 1)
              IN  Min((a.total \div 100) * pct + ((a.total % 100) * pct) \div 100, 209715200)
    ELSE a.memory * 1048576

\* C5 (as amended): with memory storage and auto_memory_size, MemorySize
\* is 40 MiB for strategy 0; for a strategy s >= 1 it is
\* floor(totalMemory / 100) x (5 + 5 x (s - 1)), or the configured
\* memory_size x 1 MiB when that product is 0, and in both cases at most
\* 209715200.  Otherwise it is the configured memory_size x 1 MiB.
C5_MemorySize ==
    (CallStage = "publish" /\ arg.anomaly.tag = "none") =>
        /\ CallValue.MemorySize = ExpectedMemorySize(arg)
        /\ (arg.storage = 1 /\ arg.auto) => CallValue.MemorySize <= 209715200

\* The percentage of 2 GiB - 1 exceeded the ceiling and was capped; and a
\* total below 100 bytes left the configured size, which was capped too.
C5_Witness ==
    /\ CallStage = "publish"
    /\ arg.storage = 1 /\ arg.auto /\ arg.strategy = 20
    /\ arg.total = 2147483647
    /\ CallValue.MemorySize = 209715200

\* C5 as stated.
C5_MemorySizeAsClaimed ==
    (CallStage = "publish" /\ arg.anomaly.tag = "none") =>
        CallValue.MemorySize = ClaimedMemorySize(arg)

SchemeText == <<
    <<"S", "o", "c", "k", "s", "4">>, <<"S", "o", "c", "k", "s", "5">>,
    <<"H", "T", "T", "P">>, <<"H", "T", "T", "P", "S">>>>
ClaimedSchemeText == <<
    <<"s", "o", "c", "k", "s", "4">>, <<"s", "o", "c", "k", "s", "5">>,
    <<"h", "t", "t", "p">>, <<"h", "t", "t", "p", "s">>>>
PortText(n) == IF n = 80 THEN Text80 ELSE IF n = 1080 THEN Text1080 ELSE <<"0">>

ExpectedProxyURL(a) ==
    IF a.enabled /\ a.host # Empty
    THEN SchemeText[a.type + 1] \o <<":", "/", "/">>
             \o (IF a.login # Empty \/ a.password # Empty
                 THEN a.login \o <<":">> \o a.password \o <<"@">> ELSE Empty)
             \o a.host \o <<":">> \o PortText(a.port)
    ELSE Empty

\* scheme://[login[:password]@]host:port with the lower-case schemes of the
\* claim's examples.
ClaimedProxyURL(a) ==
    IF a.enabled /\ a.host # Empty
    THEN ClaimedSchemeText[a.type + 1] \o <<":", "/", "/">>
             \o (IF a.login # Empty \/ a.password # Empty
                 THEN a.login
                          \o (IF a.password # Empty THEN <<":">> \o a.password ELSE Empty)
                          \o <<"@">>
                 ELSE Empty)
             \o a.host \o <<":">> \o PortText(a.port)
    ELSE Empty

ProxyExampleSocks == [PlainInput EXCEPT !.enabled = TRUE, !.type = 1, !.host = HostH, !.port = 1080]
ProxyExampleHttp ==
    [PlainInput EXCEPT !.enabled = TRUE, !.type = 2, !.host = HostH, !.port = 80,
                       !.login = LoginU, !.password = PasswordP]

\* C6 (as amended): with the proxy enabled, a non-empty host and a
\* proxy_type in 0..3, ProxyURL is the entry of {Socks4, Socks5, HTTP,
\* HTTPS} at index proxy_type as it is written there, then "://", then
\* login ":" password "@" when login or password is non-empty (the colon
\* also with an empty password), then host ":" port: Socks5://h:1080 and
\* HTTP://u:p@h:80 for the two examples.  With the proxy disabled or an
\* empty host, ProxyURL is empty.
C6_ProxyURL ==
    CallStage = "publish" =>
        /\ CallValue.ProxyURL = ExpectedProxyURL(arg)
        /\ arg = ProxyExampleSocks =>
               CallValue.ProxyURL =
                   <<"S", "o", "c", "k", "s", "5", ":", "/", "/", "h", ":", "1", "0", "8", "0">>
        /\ arg = ProxyExampleHttp =>
               CallValue.ProxyURL =
                   <<"H", "T", "T", "P", ":", "/", "/", "u", ":", "p", "@", "h", ":", "8", "0">>

\* A login without a password: the URL is HTTPS://u:@h:80.
C6_Witness ==
    /\ CallStage = "publish"
    /\ arg.enabled /\ arg.type = 3 /\ arg.host = HostH /\ arg.port = 80
    /\ arg.login = LoginU /\ arg.password = Empty
    /\ CallValue.ProxyURL =
           <<"H", "T", "T", "P", "S", ":", "/", "/", "u", ":", "@", "h", ":", "8", "0">>

\* C6 as stated.
C6_ProxyURLAsClaimed ==
    CallStage = "publish" => CallValue.ProxyURL = ClaimedProxyURL(arg)


\* ------------------------------------------------------------------------
\* IsWritablePath applied alone to one path of one filesystem
\* ------------------------------------------------------------------------

InitWritable ==
    /\ ProgramInit
    /\ \E f \in FsChoices, path \in WritableArgChoices :
           /\ fs = f
           /\ arg = [fs |-> f, path |-> path]
    /\ res = [done |-> FALSE, err |-> Nil]

WritableCheck ==
    /\ ~res.done
    /\ LET r == IsWritablePath(fs, arg.path) IN
           /\ res' = [done |-> TRUE, err |-> r.err]
           /\ fs' = r.fs
    /\ UNCHANGED <<pkgVars, settingsOpened, hostCalls, exited, exitStatus, addons>>
    /\ UNCHANGED <<reloadVars, getVars, burstVars, histVars, arg>>

NextWritable == WritableCheck

SpecWritable == InitWritable /\ [][NextWritable]_vars

IsNetworkPath(path) == HasPrefix(path, NfsPrefix) \/ HasPrefix(path, SmbPrefix)
MarkerOf(path) == path \o <<"/">> \o WritableName

\* C9: IsWritablePath returns, in this order, 'Path not set' for ".", the
\* network-path error for a path that begins with nfs or smb, the
\* filesystem's error when stat fails, the not-a-directory error for
\* something that is no directory, the filesystem's error when the probe
\* cannot be created, and nil only for an existing writable directory;
\* after nil no ".writable" is left in the directory, and a check that
\* failed before the probe has created nothing.
C9_IsWritablePathAsClaimed ==
    res.done =>
        LET path == arg.path
            f == arg.fs
            isDirectory == path \in DOMAIN f /\ f[path].isDir
        IN  /\ path = Dot => res.err = ErrPathNotSet
            /\ (path # Dot /\ IsNetworkPath(path)) => res.err = ErrNetworkPath(path)
            /\ (path # Dot /\ ~IsNetworkPath(path)) =>
                   /\ path \notin DOMAIN f =>
                          /\ res.err.code \in {"no such file or directory", "not a directory"}
                          /\ res.err.path = path
                   /\ (path \in DOMAIN f /\ ~f[path].isDir) => res.err = ErrNotDirectory(path)
                   /\ (isDirectory /\ ~f[path].writable) =>
                          res.err.code \in {"permission denied", "is a directory"}
                   /\ (isDirectory /\ f[path].writable /\ MarkerOf(path) \notin DOMAIN f) =>
                          res.err = Nil
            /\ res.err = Nil => (isDirectory /\ f[path].writable)
            /\ res.err = Nil => MarkerOf(path) \notin DOMAIN fs
            /\ (res.err # Nil /\ ~isDirectory) => fs = f

\* ------------------------------------------------------------------------
\* One Reload call on one pair of path settings and one filesystem (the
\* platform is there and the settings list does not abort)
\* ------------------------------------------------------------------------

InitPaths ==
    /\ ProgramInit
    /\ \E f \in FsChoices, dl \in HostPathChoices, lib \in HostPathChoices :
           /\ fs = f
           /\ arg = [kind |-> "paths", fs |-> f, download |-> dl, library |-> lib]
    /\ res = <<>>

SpecPaths == InitPaths /\ [][NextCall]_vars

\* The call has left the path validation for the settings.
PathsPassed ==
    \/ pc[Caller] \in {"settings", "derive", "lock", "store", "return"}
    \/ pc[Caller] = "idle" /\ started = 1

\* C4: Reload leaves the path validation for the settings exactly when the
\* download path is set and passes IsWritablePath and the library path is
\* unset or passes IsWritablePath, and aborts otherwise; an unset library
\* path becomes the download path without a check of its own; the
\* published LibraryPath is the download path or a path that passed, and
\* TorrentsPath is the download path joined with "Torrents".
C4_PathValidation ==
    LET dl == TranslatePath(arg.download)
        lib == TranslatePath(arg.library)
        dlPasses == dl # Dot /\ IsWritablePath(arg.fs, dl).err = Nil
        libPasses == lib = Dot \/ IsWritablePath(arg.fs, lib).err = Nil
    IN  /\ pc[Caller] = "library" => dlPasses
        /\ PathsPassed => (dlPasses /\ libPasses)
        /\ Aborting(Caller) => ~(dlPasses /\ libPasses)
        /\ Aborting(Caller) => warned[Caller] # NoWarning
        /\ PathsPassed =>
               /\ downloadPath[Caller] = dl
               /\ libraryPath[Caller] = (IF lib = Dot THEN dl ELSE lib)
               /\ libraryPath[Caller] # dl =>
                      IsWritablePath(arg.fs, libraryPath[Caller]).err = Nil
        /\ CallStage = "publish" =>
               /\ CallValue.DownloadPath = dl
               /\ CallValue.LibraryPath = (IF lib = Dot THEN dl ELSE lib)
               /\ CallValue.TorrentsPath = dl \o <<"/">> \o TorrentsName

\* The library path was unset and the download path /v passed: the
\* published LibraryPath is /v and TorrentsPath is /v/Torrents.
C4_Witness ==
    /\ CallStage = "publish"
    /\ TranslatePath(arg.library) = Dot
    /\ CallValue.DownloadPath = DirV
    /\ CallValue.LibraryPath = DirV
    /\ CallValue.TorrentsPath = <<"/", "v", "/", "T", "o", "r", "r", "e", "n", "t", "s">>


\* ------------------------------------------------------------------------
\* The coercion loop applied alone to one settings list
\* ------------------------------------------------------------------------

ValueAlphabet == {"0", "4", "5", ".", "-", "x"}

\* Every text over the alphabet up to the bound, and the texts of the
\* documented examples.
ValueTexts ==
    UNION {[1..n -> ValueAlphabet] : n \in 0..MaxValueLen}
        \cup {<<"4", "2", ".", "0">>, <<"1", "0", "8", "0">>, <<"-", "1", ".", "5">>,
              <<"+", "4">>, <<" ", "4">>, <<"4", " ">>, <<"0", "0", "4", ".", "5", "0">>,
              True, False, <<"T", "r", "u", "e">>, <<"t", "r", "u", "e", " ">>}

SettingKinds == {
    [Type |-> "enum", Option |-> ""], [Type |-> "number", Option |-> ""],
    [Type |-> "slider", Option |-> "percent"], [Type |-> "slider", Option |-> "int"],
    [Type |-> "slider", Option |-> "float"], [Type |-> "slider", Option |-> ""],
    [Type |-> "bool", Option |-> ""], [Type |-> "text", Option |-> ""],
    [Type |-> "folder", Option |-> ""]}

\* Lists of one entry, and lists of two entries with equal or different
\* keys.
CoerceInputs ==
    {<<Raw("k", kind.Type, kind.Option, v)>> : kind \in SettingKinds, v \in ValueTexts}
        \cup {<<Raw("k", "number", "", <<"4">>), Raw(k2, kind.Type, kind.Option, <<"0", ".", "5">>)>> :
                  k2 \in {"k", "l"}, kind \in SettingKinds}

InitCoerce ==
    /\ ProgramInit
    /\ fs = InitialFs
    /\ arg \in CoerceInputs
    /\ res = [done |-> FALSE, settings |-> <<>>]

CoerceApply ==
    /\ ~res.done
    /\ res' = [done |-> TRUE, settings |-> CoerceSettings(arg)]
    /\ UNCHANGED <<program, arg>>

NextCoerce == CoerceApply

SpecCoerce == InitCoerce /\ [][NextCoerce]_vars

\* Decimal texts, read independently of the parsers: an optional sign, then
\* digits (integer), or digits with at most one "." and at least one digit
\* (float).
IsIntegerText(v) == Unsigned(v) # Empty /\ AllDigits(Unsigned(v))
DotsOf(v) == {i \in 1..Len(v) : v[i] = "."}
IsFloatText(v) ==
    LET body == Unsigned(v)
        rest == SelectSeq(body, LAMBDA c : c # ".")
    IN  Cardinality(DotsOf(body)) <= 1 /\ rest # Empty /\ AllDigits(rest)
IntegerPart(v) ==
    LET body == Unsigned(v)
    IN  IF DotsOf(body) = {} THEN body
        ELSE SubSeq(body, 1, (CHOOSE i \in DotsOf(body) : TRUE) - 1)
FractionPart(v) ==
    LET body == Unsigned(v)
    IN  IF DotsOf(body) = {} THEN Empty
        ELSE SubSeq(body, (CHOOSE i \in DotsOf(body) : TRUE) + 1, Len(body))

\* The text of a run of digits without its leading zeros.
RECURSIVE Canonical(_)
Canonical(ds) ==
    IF ds = Empty THEN <<"0">>
    ELSE IF ds[1] = "0" /\ Len(ds) > 1 THEN Canonical(Tail(ds))
    ELSE ds

\* n is the integer a decimal text with this sign and these digits denotes.
Denotes(n, negative, ds) ==
    /\ Itoa(IF n < 0 THEN 0 - n ELSE n) = Canonical(ds)
    /\ n # 0 => ((n < 0) <=> negative)

\* f is the positive float the text denotes, in shortest form.
DenotesFloat(f, v) ==
    LET scale == Len(FractionPart(v)) - f.exp
    IN  /\ f.num > 0 /\ f.exp >= 0 /\ scale >= 0
        /\ Itoa(f.num * Pow10(scale)) = Canonical(IntegerPart(v) \o FractionPart(v))
        /\ f.exp > 0 => f.num % 10 # 0

IsNegativeText(v) == Len(v) > 0 /\ v[1] = "-"
IsZeroText(v) == \A i \in 1..Len(v) : v[i] \in {"0", ".", "+", "-"}

\* t is the value the claim gives for the entry e.
CoercedAsClaimed(t, e) ==
    IF e.Type \in {"enum", "number"}
    THEN /\ t.t = "int"
         /\ IF IsIntegerText(e.Value)
            THEN Denotes(t.n, IsNegativeText(e.Value), Unsigned(e.Value))
            ELSE t.n = 0
    ELSE IF e.Type = "slider" /\ e.Option \in {"percent", "int"}
    THEN /\ t.t = "int"
         /\ IF IsFloatText(e.Value)
            THEN Denotes(t.n, IsNegativeText(e.Value), IntegerPart(e.Value))
            ELSE t.n = 0
    ELSE IF e.Type = "slider" /\ e.Option = "float"
    THEN IF IsFloatText(e.Value) /\ ~IsNegativeText(e.Value) /\ ~IsZeroText(e.Value)
         THEN t.t = "float32" /\ DenotesFloat(t, e.Value)
         ELSE t = IntV(0)
    ELSE IF e.Type = "slider" THEN t = IntV(0)
    ELSE IF e.Type = "bool"
    THEN t.t = "bool" /\ (t.b <=> e.Value = <<"t", "r", "u", "e">>)
    ELSE t = StrV(e.Value)

\* C8: the coercion gives every key of the raw list exactly one value, that
\* of its last entry: the parsed integer or 0 for enum and number; the
\* parsed float truncated to an integer for a percent or int slider; the
\* float for a float slider whose value is strictly positive, otherwise
\* integer 0; true only for the text "true" for bool; the text itself for
\* any other kind.
C8_Coercion ==
    res.done =>
        /\ DOMAIN res.settings = {arg[i].Key : i \in 1..Len(arg)}
        /\ \A i \in 1..Len(arg) :
               (\A j \in (i + 1)..Len(arg) : arg[j].Key # arg[i].Key) =>
                   CoercedAsClaimed(res.settings[arg[i].Key], arg[i])
        /\ arg = <<Raw("k", "slider", "percent", <<"4", "2", ".", "0">>)>> =>
               res.settings["k"] = IntV(42)
        /\ arg = <<Raw("k", "slider", "float", <<"0", ".", "5">>)>> =>
               res.settings["k"] = FloatV(5, 1)
        /\ arg = <<Raw("k", "enum", "", <<"x">>)>> => res.settings["k"] = IntV(0)
        /\ arg = <<Raw("k", "slider", "float", <<"-", "1", ".", "5">>)>> =>
               res.settings["k"] = IntV(0)

\* A two-entry list whose second entry, a float slider "0.5", replaced the
\* number of the same key: the map has the one key with float 0.5.
C8_Witness ==
    /\ res.done
    /\ Len(arg) = 2 /\ arg[1].Key = arg[2].Key
    /\ arg[2].Type = "slider" /\ arg[2].Option = "float"
    /\ DOMAIN res.settings = {"k"}
    /\ res.settings["k"] = FloatV(5, 1)

====
